---- MODULE Spec2Model ----
(***************************************************************************)
(* Verification development for the record/replay contract verifier.      *)
(*                                                                         *)
(* JavaScript strings are modelled as sequences of one-character strings, *)
(* so that toLowerCase, includes, startsWith, split, join and the regular *)
(* expressions of the source are computed and not assumed.  JSON values   *)
(* are records with one fixed set of fields (see JV).  Numbers are kept   *)
(* as a pair (hi, lo) standing for hi * 1000 + lo, 0 <= lo < 1000, which  *)
(* keeps epoch-millisecond values inside the range of the model checker's *)
(* integers.                                                               *)
(***************************************************************************)
EXTENDS Integers, Sequences, FiniteSets, TLC

(***************************************************************************)
(* Characters and strings                                                  *)
(***************************************************************************)
DigitChars == <<"0", "1", "2", "3", "4", "5", "6", "7", "8", "9">>

UpperChars == <<"A", "B", "C", "D", "E", "F", "G", "H", "I", "J", "K", "L", "M",
                "N", "O", "P", "Q", "R", "S", "T", "U", "V", "W", "X", "Y", "Z">>

LowerChars == <<"a", "b", "c", "d", "e", "f", "g", "h", "i", "j", "k", "l", "m",
                "n", "o", "p", "q", "r", "s", "t", "u", "v", "w", "x", "y", "z">>

Range(seq) == {seq[i] : i \in 1..Len(seq)}

IsDigit(c) == c \in Range(DigitChars)

DigitVal(c) == (CHOOSE i \in 1..10 : DigitChars[i] = c) - 1

\* /[0-9a-f]/i
IsHex(c) == \/ IsDigit(c)
            \/ c \in {"a", "b", "c", "d", "e", "f", "A", "B", "C", "D", "E", "F"}

LowerChar(c) ==
  IF c \in Range(UpperChars)
  THEN LowerChars[CHOOSE i \in 1..26 : UpperChars[i] = c]
  ELSE c

\* String.prototype.toLowerCase
toLowerCase(s) == [i \in 1..Len(s) |-> LowerChar(s[i])]

\* String.prototype.includes
includes(s, sub) ==
  \E i \in 0..(Len(s) - Len(sub)) : SubSeq(s, i + 1, i + Len(sub)) = sub

\* String.prototype.startsWith
startsWith(s, prefix) ==
  Len(s) >= Len(prefix) /\ SubSeq(s, 1, Len(prefix)) = prefix

\* Array.prototype.join on an array of strings
RECURSIVE join(_, _)
join(parts, sep) ==
  IF Len(parts) = 0 THEN << >>
  ELSE IF Len(parts) = 1 THEN parts[1]
  ELSE parts[1] \o sep \o join(Tail(parts), sep)

\* s.split('.').pop(): what follows the last '.' of s (all of s without one)
splitPop(s) ==
  LET dots == {i \in 1..Len(s) : s[i] = "."}
  IN IF dots = {} THEN s
     ELSE SubSeq(s, (CHOOSE i \in dots : \A j \in dots : j <= i) + 1, Len(s))

\* String(n) for an array index n
RECURSIVE indexToString(_)
indexToString(n) ==
  IF n < 10 THEN <<DigitChars[n + 1]>>
  ELSE indexToString(n \div 10) \o <<DigitChars[(n % 10) + 1]>>

(***************************************************************************)
(* JSON values                                                             *)
(***************************************************************************)
JV(t, b, hi, lo, s, keys, vals) ==
  [t |-> t, b |-> b, hi |-> hi, lo |-> lo, s |-> s, keys |-> keys, vals |-> vals]

Undefined == JV("undefined", FALSE, 0, 0, << >>, << >>, << >>)
Null == JV("null", FALSE, 0, 0, << >>, << >>, << >>)
Bool(b) == JV("boolean", b, 0, 0, << >>, << >>, << >>)
\* the number hi * 1000 + lo
Num(hi, lo) == JV("number", FALSE, hi, lo, << >>, << >>, << >>)
Str(s) == JV("string", FALSE, 0, 0, s, << >>, << >>)
\* an object with its keys in insertion order
Obj(keys, vals) == JV("object", FALSE, 0, 0, << >>, keys, vals)
Arr(items) == JV("array", FALSE, 0, 0, << >>, << >>, items)

\* the typeof operator
typeof(v) ==
  IF v.t \in {"null", "object", "array"} THEN "object" ELSE v.t

\* obj[key], undefined when the key is absent
Get(obj, key) ==
  IF \E i \in 1..Len(obj.keys) : obj.keys[i] = key
  THEN obj.vals[CHOOSE i \in 1..Len(obj.keys) : obj.keys[i] = key]
  ELSE Undefined

HasKey(obj, key) == \E i \in 1..Len(obj.keys) : obj.keys[i] = key

\* a === b for primitives; two distinct objects are never identical
StrictEq(a, b) ==
  /\ a.t = b.t
  /\ a.t \notin {"object", "array"}
  /\ a = b

(***************************************************************************)
(* deep-diff: diff(lhs, rhs) as the verifier calls it.  A difference is    *)
(* {kind, path, lhs, rhs} and, for kind 'A', {index, item: {kind, lhs,     *)
(* rhs}}; the item's values are kept in lhs and rhs.  A difference at the  *)
(* root carries no path property (path = << >> here).                      *)
(***************************************************************************)
Diff(kind, path, lhs, rhs, index, itemKind) ==
  [kind |-> kind, path |-> path, lhs |-> lhs, rhs |-> rhs,
   index |-> index, itemKind |-> itemKind]

DiffNew(path, rhs) == Diff("N", path, Undefined, rhs, -1, "-")
DiffDeleted(path, lhs) == Diff("D", path, lhs, Undefined, -1, "-")
DiffEdit(path, lhs, rhs) == Diff("E", path, lhs, rhs, -1, "-")
DiffArrayNew(path, index, rhs) == Diff("A", path, Undefined, rhs, index, "N")
DiffArrayDeleted(path, index, lhs) == Diff("A", path, lhs, Undefined, index, "D")

RECURSIVE deepDiff(_, _, _)
RECURSIVE diffArrayTail(_, _, _, _)
RECURSIVE diffArrayItems(_, _, _, _)
RECURSIVE diffLeftKeys(_, _, _, _)
RECURSIVE diffRightKeys(_, _, _, _)

\* while (i > j) push A/N rhs[i--]; while (j > i) push A/D lhs[j--]
\* (i, j are the 1-based last positions of rhs and lhs)
diffArrayTail(lhs, rhs, path, n) ==
  IF n <= Len(lhs.vals) /\ n <= Len(rhs.vals) THEN << >>
  ELSE IF n > Len(lhs.vals)
       THEN <<DiffArrayNew(path, n - 1, rhs.vals[n])>>
              \o diffArrayTail(lhs, rhs, path, n - 1)
       ELSE <<DiffArrayDeleted(path, n - 1, lhs.vals[n])>>
              \o diffArrayTail(lhs, rhs, path, n - 1)

\* for (; i >= 0; --i) deepDiff(lhs[i], rhs[i], ..., currentPath, i)
diffArrayItems(lhs, rhs, path, n) ==
  IF n = 0 THEN << >>
  ELSE deepDiff(lhs.vals[n], rhs.vals[n], path \o <<indexToString(n - 1)>>)
         \o diffArrayItems(lhs, rhs, path, n - 1)

\* the keys of lhs in order: compared when rhs has the key, deleted otherwise
diffLeftKeys(lhs, rhs, path, i) ==
  IF i > Len(lhs.keys) THEN << >>
  ELSE deepDiff(lhs.vals[i], Get(rhs, lhs.keys[i]), path \o <<lhs.keys[i]>>)
         \o diffLeftKeys(lhs, rhs, path, i + 1)

\* then the keys only rhs has, in order
diffRightKeys(lhs, rhs, path, i) ==
  IF i > Len(rhs.keys) THEN << >>
  ELSE (IF HasKey(lhs, rhs.keys[i]) THEN << >>
        ELSE deepDiff(Undefined, rhs.vals[i], path \o <<rhs.keys[i]>>))
         \o diffRightKeys(lhs, rhs, path, i + 1)

deepDiff(lhs, rhs, currentPath) ==
  IF lhs.t = "undefined" /\ rhs.t # "undefined" THEN <<DiffNew(currentPath, rhs)>>
  ELSE IF rhs.t = "undefined" /\ lhs.t # "undefined"
  THEN <<DiffDeleted(currentPath, lhs)>>
  ELSE IF lhs.t # rhs.t THEN <<DiffEdit(currentPath, lhs, rhs)>>
  ELSE IF lhs.t = "array"
  THEN LET m == IF Len(lhs.vals) < Len(rhs.vals) THEN Len(lhs.vals)
                ELSE Len(rhs.vals)
           top == IF Len(lhs.vals) < Len(rhs.vals) THEN Len(rhs.vals)
                  ELSE Len(lhs.vals)
       IN diffArrayTail(lhs, rhs, currentPath, top)
            \o diffArrayItems(lhs, rhs, currentPath, m)
  ELSE IF lhs.t = "object"
  THEN diffLeftKeys(lhs, rhs, currentPath, 1)
         \o diffRightKeys(lhs, rhs, currentPath, 1)
  ELSE IF lhs # rhs THEN <<DiffEdit(currentPath, lhs, rhs)>>
  ELSE << >>

(***************************************************************************)
(* Numbers as (hi, lo) pairs, and Date                                     *)
(***************************************************************************)
NumLess(a, b) == a.hi < b.hi \/ (a.hi = b.hi /\ a.lo < b.lo)

\* const minTimestamp = 946684800000 (2000-01-01), in seconds
MinTimestampSec == 946684800

\* value < 4102444800 is read as seconds: 4102444800 = 4102444 * 1000 + 800
SecondsLimitHi == 4102444
SecondsLimitLo == 800

\* Date.now(), in seconds: the wall clock of the run (2026-11-05T00:00:00Z)
NowSec == 1793836800

AllDigits(s) == Len(s) > 0 /\ \A i \in 1..Len(s) : IsDigit(s[i])

\* the number written by the digits s
RECURSIVE digitsToInt(_)
digitsToInt(s) ==
  IF Len(s) = 0 THEN 0
  ELSE digitsToInt(SubSeq(s, 1, Len(s) - 1)) * 10 + DigitVal(s[Len(s)])

\* (.\d+)?Z? at the end of isoDatePattern
isoTailMatches(rest) ==
  \/ rest = << >>
  \/ rest = <<"Z">>
  \/ Len(rest) >= 2 /\ AllDigits(SubSeq(rest, 2, Len(rest)))
  \/ Len(rest) >= 3 /\ rest[Len(rest)] = "Z"
       /\ AllDigits(SubSeq(rest, 2, Len(rest) - 1))

\* /^\d{4}-\d{2}-\d{2}T\d{2}:\d{2}:\d{2}(.\d+)?Z?$/
isoDatePattern(s) ==
  /\ Len(s) >= 19
  /\ AllDigits(SubSeq(s, 1, 4)) /\ s[5] = "-"
  /\ AllDigits(SubSeq(s, 6, 7)) /\ s[8] = "-"
  /\ AllDigits(SubSeq(s, 9, 10)) /\ s[11] = "T"
  /\ AllDigits(SubSeq(s, 12, 13)) /\ s[14] = ":"
  /\ AllDigits(SubSeq(s, 15, 16)) /\ s[17] = ":"
  /\ AllDigits(SubSeq(s, 18, 19))
  /\ isoTailMatches(SubSeq(s, 20, Len(s)))

\* days from 1970-01-01 to the civil date y-m-d
daysFromCivil(y, m, d) ==
  LET yy == IF m <= 2 THEN y - 1 ELSE y
      era == yy \div 400
      yoe == yy - era * 400
      mp == IF m > 2 THEN m - 3 ELSE m + 9
      doy == (153 * mp + 2) \div 5 + d - 1
      doe == yoe * 365 + yoe \div 4 - yoe \div 100 + doy
  IN era * 146097 + doe - 719468

\* milliseconds of the fraction digits f: the first three, right-padded
fractionMs(f) ==
  IF Len(f) = 0 THEN 0
  ELSE IF Len(f) = 1 THEN digitsToInt(f) * 100
  ELSE IF Len(f) = 2 THEN digitsToInt(f) * 10
  ELSE digitsToInt(SubSeq(f, 1, 3))

\* new Date(s) for the date-time strings of the input universe: the UTC form
\* YYYY-MM-DDTHH:MM:SS[.f+]Z is a valid date, any other string is Invalid Date
dateParse(s) ==
  LET wellFormed ==
        /\ isoDatePattern(s)
        /\ s[Len(s)] = "Z"
        /\ (Len(s) = 20 \/ (s[20] = "." /\ Len(s) >= 22))
      y == digitsToInt(SubSeq(s, 1, 4))
      mo == digitsToInt(SubSeq(s, 6, 7))
      d == digitsToInt(SubSeq(s, 9, 10))
      h == digitsToInt(SubSeq(s, 12, 13))
      mi == digitsToInt(SubSeq(s, 15, 16))
      sec == digitsToInt(SubSeq(s, 18, 19))
  IN IF wellFormed /\ y >= 1970 /\ y <= 2037 /\ mo \in 1..12 /\ d \in 1..31
          /\ h <= 23 /\ mi <= 59 /\ sec <= 59
     THEN [valid |-> TRUE,
           hi |-> daysFromCivil(y, mo, d) * 86400 + h * 3600 + mi * 60 + sec,
           lo |-> fractionMs(SubSeq(s, 21, Len(s) - 1))]
     ELSE [valid |-> FALSE, hi |-> 0, lo |-> 0]

\* /^[0-9a-f]{8}-?[0-9a-f]{4}-?[0-9a-f]{4}-?[0-9a-f]{4}-?[0-9a-f]{12}$/i ;
\* isUUID.anyNonNil accepts a subset of the strings this pattern accepts
RECURSIVE uuidGroups(_, _)
uuidGroups(s, groups) ==
  IF Len(groups) = 0 THEN Len(s) = 0
  ELSE /\ Len(s) >= groups[1]
       /\ \A i \in 1..groups[1] : IsHex(s[i])
       /\ LET rest == SubSeq(s, groups[1] + 1, Len(s))
          IN \/ uuidGroups(rest, Tail(groups))
             \/ /\ Len(groups) > 1 /\ Len(rest) > 0 /\ rest[1] = "-"
                /\ uuidGroups(Tail(rest), Tail(groups))

uuidPattern(s) == uuidGroups(s, <<8, 4, 4, 4, 12>>)

(***************************************************************************)
(* Options.  this.options.tolerances is a record of the six tolerance      *)
(* fields; `defined` names the fields the object really has (the others    *)
(* are undefined and hold a filler here).  An ignoreFields entry is a      *)
(* string, or a RegExp given by a literal source text without flags.       *)
(***************************************************************************)
Tolerances(defined, drift, ignoreUUIDs, sortArrays, arrayFields, timestampFields, uuidFields) ==
  [defined |-> defined, timestampDriftSeconds |-> drift,
   ignoreUUIDs |-> ignoreUUIDs, sortArrays |-> sortArrays,
   arrayFields |-> arrayFields, timestampFields |-> timestampFields,
   uuidFields |-> uuidFields]

IsDefined(tol, field) == field \in tol.defined

IgnoreString(s) == [regex |-> FALSE, s |-> s]
IgnoreRegExp(s) == [regex |-> TRUE, s |-> s]

\* ignoreFields.some(pattern => ...)
shouldIgnoreField(opts, fieldPath) ==
  \E i \in 1..Len(opts.ignoreFields) :
    LET pattern == opts.ignoreFields[i]
    IN IF ~pattern.regex
       THEN fieldPath = pattern.s \/ startsWith(fieldPath, pattern.s \o <<".">>)
       ELSE includes(fieldPath, pattern.s)

(***************************************************************************)
(* Tolerance classifier                                                    *)
(***************************************************************************)
\* reading .some of an undefined uuidFields throws a TypeError
isLikelyUUID_throws(opts, key, value) == ~IsDefined(opts.tolerances, "uuidFields")

isLikelyUUID(opts, key, value) ==
  LET fields == opts.tolerances.uuidFields
      isUuidField == \E i \in 1..Len(fields) :
                       includes(toLowerCase(key), toLowerCase(fields[i]))
  IN isUuidField /\ typeof(value) = "string" /\ uuidPattern(value.s)

\* reading .some of an undefined timestampFields throws a TypeError
isLikelyTimestamp_throws(opts, path, value) ==
  ~IsDefined(opts.tolerances, "timestampFields")

isLikelyTimestamp(opts, path, value) ==
  LET fieldName == splitPop(path)
      fields == opts.tolerances.timestampFields
      isTimestampField == \E i \in 1..Len(fields) :
                            includes(toLowerCase(fieldName), toLowerCase(fields[i]))
  IN IF typeof(value) = "string"
     THEN isTimestampField \/ isoDatePattern(value.s)
     ELSE IF typeof(value) = "number"
     THEN \/ isTimestampField
          \/ /\ NumLess(Num(MinTimestampSec, 0), value)
             /\ ~NumLess(Num(NowSec, 0), value)
     ELSE FALSE

\* milliseconds of a timestamp value, or null (valid = FALSE); the strings of
\* the input universe that are no dates are no numbers either (Number(s) is NaN)
toTimestamp(value) ==
  IF typeof(value) = "number"
  THEN IF NumLess(value, Num(SecondsLimitHi, SecondsLimitLo))
       THEN [valid |-> TRUE, hi |-> value.hi * 1000 + value.lo, lo |-> 0]
       ELSE [valid |-> TRUE, hi |-> value.hi, lo |-> value.lo]
  ELSE IF typeof(value) = "string"
  THEN dateParse(value.s)
  ELSE [valid |-> FALSE, hi |-> 0, lo |-> 0]

\* Math.abs(time1 - time2) / 1000 <= drift, on (hi, lo) pairs
withinDrift(time1, time2, drift) ==
  LET dhi == IF time1.hi >= time2.hi THEN time1.hi - time2.hi
             ELSE time2.hi - time1.hi
      d == (time1.hi - time2.hi) * 1000 + (time1.lo - time2.lo)
  IN IF dhi > drift + 1 THEN FALSE
     ELSE (IF d >= 0 THEN d ELSE -d) <= drift * 1000

areTimestampsEquivalent(opts, timestamp1, timestamp2) ==
  LET time1 == toTimestamp(timestamp1)
      time2 == toTimestamp(timestamp2)
      isZero(t) == t.hi = 0 /\ t.lo = 0
  IN IF ~time1.valid \/ ~time2.valid \/ isZero(time1) \/ isZero(time2)
     THEN FALSE
     ELSE \* a comparison with an undefined drift is false
          /\ IsDefined(opts.tolerances, "timestampDriftSeconds")
          /\ withinDrift(time1, time2, opts.tolerances.timestampDriftSeconds)

areValuesEquivalent_throws(opts, path, original, replayed) ==
  /\ ~StrictEq(original, replayed)
  /\ \/ isLikelyTimestamp_throws(opts, path, original)
     \/ /\ ~(isLikelyTimestamp(opts, path, original)
              /\ isLikelyTimestamp(opts, path, replayed))
        /\ IsDefined(opts.tolerances, "ignoreUUIDs")
        /\ opts.tolerances.ignoreUUIDs
        /\ typeof(original) = "string" /\ typeof(replayed) = "string"
        /\ isLikelyUUID_throws(opts, << >>, original)

areValuesEquivalent(opts, path, original, replayed) ==
  IF StrictEq(original, replayed) THEN TRUE
  ELSE IF isLikelyTimestamp(opts, path, original)
            /\ isLikelyTimestamp(opts, path, replayed)
  THEN areTimestampsEquivalent(opts, original, replayed)
  ELSE /\ IsDefined(opts.tolerances, "ignoreUUIDs")
       /\ opts.tolerances.ignoreUUIDs
       /\ typeof(original) = "string" /\ typeof(replayed) = "string"
       /\ isLikelyUUID(opts, << >>, original)
       /\ isLikelyUUID(opts, << >>, replayed)

(***************************************************************************)
(* Array sorting.  String(a) of a primitive, and localeCompare on the      *)
(* characters of the input universe: punctuation before digits before      *)
(* letters, letters compared without case first and lower case before      *)
(* upper case at the first difference otherwise.                           *)
(***************************************************************************)
pad3(n) == <<DigitChars[(n \div 100) + 1], DigitChars[((n \div 10) % 10) + 1],
             DigitChars[(n % 10) + 1]>>

\* String(value) for null, booleans, non-negative integers and strings
String(v) ==
  IF v.t = "null" THEN <<"n", "u", "l", "l">>
  ELSE IF v.t = "boolean"
  THEN (IF v.b THEN <<"t", "r", "u", "e">> ELSE <<"f", "a", "l", "s", "e">>)
  ELSE IF v.t = "number"
  THEN (IF v.hi = 0 THEN indexToString(v.lo)
        ELSE indexToString(v.hi) \o pad3(v.lo))
  ELSE v.s

primaryWeight(c) ==
  IF IsDigit(c) THEN 1 + DigitVal(c)
  ELSE IF LowerChar(c) \in Range(LowerChars)
  THEN 10 + (CHOOSE i \in 1..26 : LowerChars[i] = LowerChar(c))
  ELSE 0

RECURSIVE comparePrimary(_, _)
comparePrimary(a, b) ==
  IF Len(a) = 0 THEN (IF Len(b) = 0 THEN 0 ELSE -1)
  ELSE IF Len(b) = 0 THEN 1
  ELSE IF primaryWeight(a[1]) < primaryWeight(b[1]) THEN -1
  ELSE IF primaryWeight(a[1]) > primaryWeight(b[1]) THEN 1
  ELSE comparePrimary(Tail(a), Tail(b))

RECURSIVE compareCase(_, _)
compareCase(a, b) ==
  IF Len(a) = 0 \/ Len(b) = 0 THEN 0
  ELSE IF a[1] = b[1] THEN compareCase(Tail(a), Tail(b))
  ELSE IF a[1] \in Range(LowerChars) THEN -1
  ELSE IF b[1] \in Range(LowerChars) THEN 1
  ELSE compareCase(Tail(a), Tail(b))

localeCompare(a, b) ==
  IF comparePrimary(a, b) # 0 THEN comparePrimary(a, b) ELSE compareCase(a, b)

\* the comparator of the primitive branch of sortArray
comparePrimitives(a, b) ==
  IF a.t = "null" THEN -1
  ELSE IF b.t = "null" THEN 1
  ELSE localeCompare(String(a), String(b))

\* Array.prototype.sort is stable: an element goes after every element that
\* does not compare greater than it
RECURSIVE insertSorted(_, _)
insertSorted(sorted, item) ==
  IF Len(sorted) = 0 THEN <<item>>
  ELSE IF comparePrimitives(item, sorted[Len(sorted)]) < 0
  THEN insertSorted(SubSeq(sorted, 1, Len(sorted) - 1), item)
         \o <<sorted[Len(sorted)]>>
  ELSE sorted \o <<item>>

RECURSIVE stableSort(_)
stableSort(items) ==
  IF Len(items) = 0 THEN << >>
  ELSE insertSorted(stableSort(SubSeq(items, 1, Len(items) - 1)),
                    items[Len(items)])

\* the arrays with several elements of the input universe hold primitives
\* only; the JSON-text order of arrays of objects is outside the model and
\* such an array is left as it is
sortArray(array) ==
  IF Len(array.vals) <= 1 THEN array
  ELSE IF \A i \in 1..Len(array.vals) : array.vals[i].t \notin {"object", "array"}
  THEN Arr(stableSort(array.vals))
  ELSE array

\* reading .length of an undefined arrayFields throws a TypeError
shouldSortArray_throws(opts, path) == ~IsDefined(opts.tolerances, "arrayFields")

shouldSortArray(opts, path) ==
  LET fields == opts.tolerances.arrayFields
  IN IF Len(fields) = 0 THEN TRUE
     ELSE \E i \in 1..Len(fields) :
            \/ path = fields[i]
            \/ startsWith(path, fields[i] \o <<".">>)
            \/ startsWith(path, fields[i] \o <<"[">>)

TolFlag(opts, field) ==
  IsDefined(opts.tolerances, field) /\ opts.tolerances[field]

UuidPlaceholder == Str(<<"[", "U", "U", "I", "D", "]">>)

RECURSIVE normalizeForComparison_throws(_, _, _)
normalizeForComparison_throws(opts, path, data) ==
  IF data.t = "array"
  THEN \/ \E i \in 1..Len(data.vals) :
            normalizeForComparison_throws(opts, path \o <<"[", "]">>, data.vals[i])
       \/ TolFlag(opts, "sortArrays") /\ shouldSortArray_throws(opts, path)
  ELSE IF data.t = "object"
  THEN \E i \in 1..Len(data.keys) :
         LET key == data.keys[i]
             fullPath == IF path # << >> THEN path \o <<".">> \o key ELSE key
         IN IF TolFlag(opts, "ignoreUUIDs")
            THEN \/ isLikelyUUID_throws(opts, key, data.vals[i])
                 \/ /\ ~(isLikelyUUID(opts, key, data.vals[i])
                          /\ ~shouldIgnoreField(opts, fullPath))
                    /\ normalizeForComparison_throws(opts, fullPath, data.vals[i])
            ELSE normalizeForComparison_throws(opts, fullPath, data.vals[i])
  ELSE FALSE

RECURSIVE normalizeForComparison(_, _, _)
normalizeForComparison(opts, path, data) ==
  IF data.t = "array"
  THEN LET normalizedArray ==
             Arr([i \in 1..Len(data.vals) |->
                    normalizeForComparison(opts, path \o <<"[", "]">>, data.vals[i])])
       IN IF TolFlag(opts, "sortArrays") /\ shouldSortArray(opts, path)
          THEN sortArray(normalizedArray)
          ELSE normalizedArray
  ELSE IF data.t = "object"
  THEN Obj(data.keys,
           [i \in 1..Len(data.keys) |->
              LET key == data.keys[i]
                  fullPath == IF path # << >> THEN path \o <<".">> \o key ELSE key
              IN IF /\ TolFlag(opts, "ignoreUUIDs")
                    /\ isLikelyUUID(opts, key, data.vals[i])
                    /\ ~shouldIgnoreField(opts, fullPath)
                 THEN UuidPlaceholder
                 ELSE normalizeForComparison(opts, fullPath, data.vals[i])])
  ELSE data

(***************************************************************************)
(* Differ.  A body comparison is the record of its four lists, the count   *)
(* of tolerated differences and the total; an entry of added, removed or   *)
(* modified is kept as its path, an entry of incompatible as its path and  *)
(* reason (the values carried along are not read by the judge).  A reason  *)
(* is the sequence of the pieces of its text.                              *)
(***************************************************************************)
BodyDiffs(added, removed, modified, incompatible, tolerated, total) ==
  [added |-> added, removed |-> removed, modified |-> modified,
   incompatible |-> incompatible, tolerated |-> tolerated, total |-> total]

Incompatible(path, reason) == [path |-> path, reason |-> reason]

RootPath == <<"/">>
TypeChanged(lhs, rhs) == <<"Type changed from ", typeof(lhs), " to ", typeof(rhs)>>
TypeMismatch(lhs, rhs) == <<"Type mismatch: ", typeof(lhs), " vs ", typeof(rhs)>>
FieldRemoved == <<"Field was removed">>
ElementRemoved == <<"Array element was removed">>
ComparisonError == <<"Comparison error: ", "TypeError">>

EmptyDiffs == BodyDiffs(<< >>, << >>, << >>, << >>, 0, 0)
ComparisonErrorDiffs ==
  BodyDiffs(<< >>, << >>, << >>, <<Incompatible(RootPath, ComparisonError)>>, 0, 1)

\* `${path}[${diff.index}]`
arrayPath(path, index) == path \o <<"[">> \o indexToString(index) \o <<"]">>

\* the switch on diff.kind, added to the lists collected so far
categorize(acc, diff, path) ==
  IF diff.kind = "N"
  THEN [acc EXCEPT !.added = @ \o <<path>>]
  ELSE IF diff.kind = "D"
  THEN [acc EXCEPT !.removed = @ \o <<path>>,
                   !.incompatible = @ \o <<Incompatible(path, FieldRemoved)>>]
  ELSE IF diff.kind = "E"
  THEN [acc EXCEPT !.modified = @ \o <<path>>,
                   !.incompatible =
                      IF typeof(diff.lhs) # typeof(diff.rhs)
                      THEN @ \o <<Incompatible(path, TypeChanged(diff.lhs, diff.rhs))>>
                      ELSE @]
  ELSE \* 'A'
    IF diff.itemKind = "D"
    THEN [acc EXCEPT !.removed = @ \o <<arrayPath(path, diff.index)>>,
                     !.incompatible =
                        @ \o <<Incompatible(arrayPath(path, diff.index), ElementRemoved)>>]
    ELSE IF diff.itemKind = "N"
    THEN [acc EXCEPT !.added = @ \o <<arrayPath(path, diff.index)>>]
    ELSE IF diff.itemKind = "E"
    THEN [acc EXCEPT !.modified = @ \o <<arrayPath(path, diff.index)>>,
                     !.incompatible =
                        IF typeof(diff.lhs) # typeof(diff.rhs)
                        THEN @ \o <<Incompatible(arrayPath(path, diff.index),
                                                 TypeChanged(diff.lhs, diff.rhs))>>
                        ELSE @]
    ELSE acc

\* a difference at the root has no path property: diff.path.join throws
diffPath_throws(diff) == Len(diff.path) = 0
diffPath(diff) == join(diff.path, <<".">>)

shouldTolerateDifference_throws(opts, diff, path) ==
  IF diff.kind = "E"
  THEN areValuesEquivalent_throws(opts, path, diff.lhs, diff.rhs)
  ELSE IF diff.kind = "A" /\ diff.itemKind = "E"
  THEN areValuesEquivalent_throws(opts, arrayPath(path, diff.index), diff.lhs, diff.rhs)
  ELSE FALSE

shouldTolerateDifference(opts, diff, path) ==
  IF diff.kind = "E"
  THEN areValuesEquivalent(opts, path, diff.lhs, diff.rhs)
  ELSE IF diff.kind = "A" /\ diff.itemKind = "E"
  THEN areValuesEquivalent(opts, arrayPath(path, diff.index), diff.lhs, diff.rhs)
  ELSE FALSE

\* part_004: the base differ, without tolerance rules
RECURSIVE processDifferencesBase(_, _, _)
processDifferencesBase(opts, differences, acc) ==
  IF Len(differences) = 0 THEN acc
  ELSE LET diff == Head(differences)
           path == diffPath(diff)
       IN processDifferencesBase(opts, Tail(differences),
            IF shouldIgnoreField(opts, path) THEN acc
            ELSE categorize(acc, diff, path))

compareResponseBodiesBase(opts, originalBody, replayedBody) ==
  IF originalBody.t = "undefined" /\ replayedBody.t = "undefined"
  THEN EmptyDiffs
  ELSE IF typeof(originalBody) # typeof(replayedBody)
  THEN BodyDiffs(<< >>, << >>, << >>,
                 <<Incompatible(RootPath, TypeMismatch(originalBody, replayedBody))>>,
                 0, 1)
  ELSE IF typeof(originalBody) # "object" \/ originalBody.t = "null"
          \/ replayedBody.t = "null"
  THEN LET identical == StrictEq(originalBody, replayedBody)
       IN BodyDiffs(<< >>, << >>, IF identical THEN << >> ELSE <<RootPath>>,
                    << >>, 0, IF identical THEN 0 ELSE 1)
  ELSE LET differences == deepDiff(originalBody, replayedBody, << >>)
       IN IF \E i \in 1..Len(differences) : diffPath_throws(differences[i])
          THEN ComparisonErrorDiffs
          ELSE LET acc == processDifferencesBase(opts, differences, EmptyDiffs)
               IN [acc EXCEPT !.total =
                     Len(acc.added) + Len(acc.removed) + Len(acc.modified)]

\* replay_strict_mode.js: the differ with tolerance rules
RECURSIVE processDifferences(_, _, _)
processDifferences(opts, differences, acc) ==
  IF Len(differences) = 0 THEN acc
  ELSE LET diff == Head(differences)
           path == diffPath(diff)
       IN processDifferences(opts, Tail(differences),
            IF shouldIgnoreField(opts, path) THEN acc
            ELSE IF shouldTolerateDifference(opts, diff, path)
            THEN [acc EXCEPT !.tolerated = @ + 1]
            ELSE categorize(acc, diff, path))

\* the exceptions that leave compareResponseBodies: those raised before its
\* try block
compareResponseBodies_throws(opts, originalBody, replayedBody) ==
  IF originalBody.t = "undefined" /\ replayedBody.t = "undefined" THEN FALSE
  ELSE IF typeof(originalBody) # typeof(replayedBody) THEN FALSE
  ELSE IF typeof(originalBody) # "object" \/ originalBody.t = "null"
          \/ replayedBody.t = "null"
  THEN areValuesEquivalent_throws(opts, RootPath, originalBody, replayedBody)
  ELSE \/ normalizeForComparison_throws(opts, << >>, originalBody)
       \/ normalizeForComparison_throws(opts, << >>, replayedBody)

compareResponseBodies(opts, originalBody, replayedBody) ==
  IF originalBody.t = "undefined" /\ replayedBody.t = "undefined"
  THEN EmptyDiffs
  ELSE IF typeof(originalBody) # typeof(replayedBody)
  THEN BodyDiffs(<< >>, << >>, << >>,
                 <<Incompatible(RootPath, TypeMismatch(originalBody, replayedBody))>>,
                 0, 1)
  ELSE IF typeof(originalBody) # "object" \/ originalBody.t = "null"
          \/ replayedBody.t = "null"
  THEN LET areEquivalent ==
             areValuesEquivalent(opts, RootPath, originalBody, replayedBody)
       IN BodyDiffs(<< >>, << >>, IF areEquivalent THEN << >> ELSE <<RootPath>>,
                    << >>, 0, IF areEquivalent THEN 0 ELSE 1)
  ELSE LET normalizedOriginal == normalizeForComparison(opts, << >>, originalBody)
           normalizedReplayed == normalizeForComparison(opts, << >>, replayedBody)
           differences == deepDiff(normalizedOriginal, normalizedReplayed, << >>)
           throws == \E i \in 1..Len(differences) :
                       \/ diffPath_throws(differences[i])
                       \/ /\ ~shouldIgnoreField(opts, diffPath(differences[i]))
                          /\ shouldTolerateDifference_throws(opts, differences[i],
                                                             diffPath(differences[i]))
       IN IF throws THEN ComparisonErrorDiffs
          ELSE LET acc == processDifferences(opts, differences, EmptyDiffs)
               IN [acc EXCEPT !.total =
                     Len(acc.added) + Len(acc.removed) + Len(acc.modified)]

(***************************************************************************)
(* Responses and the judge.  A response is a status code, a header object  *)
(* (keys and string values) and a body.                                    *)
(***************************************************************************)
Headers(keys, vals) == [keys |-> keys, vals |-> vals]
Response(statusCode, headers, body) ==
  [defined |-> TRUE, statusCode |-> statusCode, headers |-> headers, body |-> body,
   replayError |-> FALSE]
\* an interaction without a response property
UndefinedResponse ==
  [defined |-> FALSE, statusCode |-> 0, headers |-> Headers(<< >>, << >>),
   body |-> Undefined, replayError |-> FALSE]

\* JSON.parse of a body text: of the texts of the input universe that start
\* with '{' or '[' only "{}" and "[]" are JSON, the others fail to parse
parseBody(body) ==
  IF body.t = "string" /\ (startsWith(body.s, <<"{">>) \/ startsWith(body.s, <<"[">>))
  THEN IF body.s = <<"{", "}">> THEN Obj(<< >>, << >>)
       ELSE IF body.s = <<"[", "]">> THEN Arr(<< >>)
       ELSE body
  ELSE body

\* normalizedHeaders[lowerKey] = value, for the keys not in ignoreHeaders
RECURSIVE lowerCaseHeaders(_, _, _)
lowerCaseHeaders(opts, headers, acc) ==
  IF Len(headers.keys) = 0 THEN acc
  ELSE LET lowerKey == toLowerCase(Head(headers.keys))
           value == Head(headers.vals)
           rest == Headers(Tail(headers.keys), Tail(headers.vals))
       IN lowerCaseHeaders(opts, rest,
            IF lowerKey \in Range(opts.ignoreHeaders) THEN acc
            ELSE IF lowerKey \in Range(acc.keys)
            THEN Headers(acc.keys,
                         [i \in 1..Len(acc.keys) |->
                            IF acc.keys[i] = lowerKey THEN value ELSE acc.vals[i]])
            ELSE Headers(acc.keys \o <<lowerKey>>, acc.vals \o <<value>>))

\* part_004 normalizeForComparison(response); the JSON clone keeps the JSON
\* values of the input universe as they are and leaves an undefined body out
normalizeForComparisonResponse(opts, response) ==
  [response EXCEPT !.headers = lowerCaseHeaders(opts, @, Headers(<< >>, << >>)),
                   !.body = parseBody(@)]

\* JSON.parse(JSON.stringify(undefined)) throws a SyntaxError
normalizeForComparisonResponse_throws(opts, response) == ~response.defined

HeaderValue(headers, key) ==
  headers.vals[CHOOSE i \in 1..Len(headers.keys) : headers.keys[i] = key]

compareHeaders(originalHeaders, replayedHeaders) ==
  LET originalKeys == originalHeaders.keys
      replayedKeys == replayedHeaders.keys
      added == SelectSeq(replayedKeys, LAMBDA key : key \notin Range(originalKeys))
      removed == SelectSeq(originalKeys, LAMBDA key : key \notin Range(replayedKeys))
      modified == SelectSeq(originalKeys, LAMBDA key :
                    /\ key \in Range(replayedKeys)
                    /\ HeaderValue(originalHeaders, key) # HeaderValue(replayedHeaders, key))
  IN [added |-> added, removed |-> removed, modified |-> modified,
      total |-> Len(added) + Len(removed) + Len(modified)]

Comparison(statusMatch, headerDiffs, bodyDiffs) ==
  [statusMatch |-> statusMatch, headerDiffs |-> headerDiffs, bodyDiffs |-> bodyDiffs,
   isCompatible |-> /\ statusMatch
                    /\ Len(headerDiffs.added) = 0
                    /\ Len(headerDiffs.removed) = 0
                    /\ Len(bodyDiffs.incompatible) = 0
                    /\ Len(bodyDiffs.removed) = 0]

\* part_004 compareResponses with the base differ
compareResponsesBase(opts, original, replayed) ==
  LET normalizedOriginal == normalizeForComparisonResponse(opts, original)
      normalizedReplayed == normalizeForComparisonResponse(opts, replayed)
  IN Comparison(normalizedOriginal.statusCode = normalizedReplayed.statusCode,
                compareHeaders(normalizedOriginal.headers, normalizedReplayed.headers),
                compareResponseBodiesBase(opts, normalizedOriginal.body,
                                          normalizedReplayed.body))

\* compareResponses of the tolerant verifier: the same method, which calls
\* the compareResponseBodies of replay_strict_mode.js
compareResponses_throws(opts, original, replayed) ==
  \/ normalizeForComparisonResponse_throws(opts, original)
  \/ normalizeForComparisonResponse_throws(opts, replayed)
  \/ compareResponseBodies_throws(opts,
        normalizeForComparisonResponse(opts, original).body,
        normalizeForComparisonResponse(opts, replayed).body)

compareResponsesBase_throws(opts, original, replayed) ==
  \/ normalizeForComparisonResponse_throws(opts, original)
  \/ normalizeForComparisonResponse_throws(opts, replayed)

compareResponses(opts, original, replayed) ==
  LET normalizedOriginal == normalizeForComparisonResponse(opts, original)
      normalizedReplayed == normalizeForComparisonResponse(opts, replayed)
  IN Comparison(normalizedOriginal.statusCode = normalizedReplayed.statusCode,
                compareHeaders(normalizedOriginal.headers, normalizedReplayed.headers),
                compareResponseBodies(opts, normalizedOriginal.body,
                                      normalizedReplayed.body))

(***************************************************************************)
(* Input universe: the texts, bodies, responses and option objects the     *)
(* operations are applied to.                                              *)
(***************************************************************************)
sId == <<"i", "d">>
sName == <<"n", "a", "m", "e">>
sExtra == <<"e", "x", "t", "r", "a">>
sData == <<"d", "a", "t", "a">>
sItems == <<"i", "t", "e", "m", "s">>
sItems1 == <<"i", "t", "e", "m", "s", "[", "1", "]">>
sCreatedAt == <<"c", "r", "e", "a", "t", "e", "d", "A", "t">>
sWhen == <<"w", "h", "e", "n">>
sAt == <<"A", "t">>
sA == <<"a">>
sB == <<"b">>
sZero == <<"0">>
sDate == <<"D", "a", "t", "e">>
sEtag == <<"E", "T", "a", "g">>
sXTrace == <<"X", "-", "T", "r", "a", "c", "e">>
sContentType == <<"C", "o", "n", "t", "e", "n", "t", "-", "T", "y", "p", "e">>
sJson == <<"j", "s", "o", "n">>
sText == <<"t", "e", "x", "t">>
sEmptyObjectText == <<"{", "}">>
sBrokenText == <<"{", "a">>
\* 2023-01-01T12:00:00Z is 1672574400 s after the epoch
sIso == <<"2", "0", "2", "3", "-", "0", "1", "-", "0", "1", "T", "1", "2", ":", "0", "0", ":", "0", "0", "Z">>
sIsoMillis == <<"2", "0", "2", "3", "-", "0", "1", "-", "0", "1", "T", "1", "2", ":", "0", "0", ":", "0", "0", ".", "0", "0", "0", "Z">>
sIsoPlus2 == <<"2", "0", "2", "3", "-", "0", "1", "-", "0", "1", "T", "1", "2", ":", "0", "0", ":", "0", "2", "Z">>
sIsoEarly == <<"1", "9", "7", "0", "-", "0", "1", "-", "0", "1", "T", "0", "0", ":", "0", "0", ":", "1", "0", "Z">>
sIsoFuture == <<"2", "0", "3", "0", "-", "0", "1", "-", "0", "1", "T", "0", "0", ":", "0", "0", ":", "0", "0", "Z">>
sUuid1 == <<"1", "2", "3", "e", "4", "5", "6", "7", "-", "e", "8", "9", "b", "-", "1", "2", "d", "3", "-", "a", "4", "5", "6", "-", "4", "2", "6", "6", "1", "4", "1", "7", "4", "0", "0", "0">>
sUuid2 == <<"1", "2", "3", "e", "4", "5", "6", "7", "-", "e", "8", "9", "b", "-", "1", "2", "d", "3", "-", "a", "4", "5", "6", "-", "4", "2", "6", "6", "1", "4", "1", "7", "4", "9", "9", "9">>

\* 2023-01-01T12:00:00Z in epoch milliseconds and in epoch seconds, and the
\* other numbers of the universe
nIsoMillis == Num(1672574400, 0)
nIsoSeconds == Num(1672574, 400)
nEarlyMillis == Num(10, 0)
nFutureMillis == Num(1893456000, 0)
nOne == Num(0, 1)
nTwo == Num(0, 2)

Obj1(key, value) == Obj(<<key>>, <<value>>)

\* the bodies: plain fields, additions, removals, type changes, containers
\* of different kinds, timestamps, UUIDs, arrays and texts
Bodies ==
  { Undefined,
    Obj(<< >>, << >>),
    Obj1(sName, Str(sA)),
    Obj1(sName, Str(sB)),
    Obj1(sName, nOne),
    Obj1(sName, Bool(TRUE)),
    Obj(<<sName, sExtra>>, <<Str(sA), nOne>>),
    Obj1(sData, Arr(<< >>)),
    Obj1(sData, Obj(<< >>, << >>)),
    Obj1(sData, Null),
    Obj1(sCreatedAt, Str(sIso)),
    Obj1(sCreatedAt, Str(sIsoMillis)),
    Obj1(sCreatedAt, Str(sIsoPlus2)),
    Obj1(sCreatedAt, nIsoMillis),
    Obj1(sCreatedAt, nIsoSeconds),
    Obj1(sCreatedAt, Str(sIsoEarly)),
    Obj1(sCreatedAt, nEarlyMillis),
    Obj1(sWhen, Str(sIso)),
    Obj1(sWhen, nIsoMillis),
    Obj1(sWhen, Str(sIsoFuture)),
    Obj1(sWhen, nFutureMillis),
    Obj1(sId, Str(sUuid1)),
    Obj1(sId, Str(sUuid2)),
    Obj1(sId, Str(sA)),
    Obj1(sItems, Arr(<<nOne, Str(sA)>>)),
    Obj1(sItems, Arr(<<Str(sA), nOne>>)),
    Obj1(sItems, Arr(<<nOne, Str(sZero)>>)),
    Obj1(sItems, Arr(<<nOne>>)),
    Obj1(sItems, Arr(<<Obj1(sId, Str(sUuid1))>>)),
    Obj1(sItems, Arr(<<Obj1(sId, Str(sUuid2))>>)),
    Arr(<<nOne>>),
    Arr(<<nOne, nTwo>>),
    Arr(<<nTwo>>),
    Null,
    Str(sA),
    Str(sIso),
    Str(sIsoPlus2),
    Str(sEmptyObjectText),
    Str(sBrokenText) }

\* option objects
TimestampFieldNames ==
  << <<"t","i","m","e","s","t","a","m","p">>, <<"d","a","t","e">>, <<"t","i","m","e">>,
     <<"c","r","e","a","t","e","d">>, <<"u","p","d","a","t","e","d">>,
     <<"c","r","e","a","t","e","d","A","t">>, <<"u","p","d","a","t","e","d","A","t">>,
     <<"c","r","e","a","t","e","d","_","a","t">>, <<"u","p","d","a","t","e","d","_","a","t">> >>
UuidFieldNames ==
  << <<"i","d">>, <<"u","u","i","d">>, <<"g","u","i","d">>,
     <<"t","r","a","c","k","i","n","g","I","d">>, <<"r","e","q","u","e","s","t","I","d">> >>
ArrayFieldNames ==
  << <<"p","r","o","d","u","c","t","s">>, <<"i","t","e","m","s">>,
     <<"r","e","s","u","l","t","s">> >>

AllToleranceFields ==
  {"timestampDriftSeconds", "ignoreUUIDs", "sortArrays", "arrayFields",
   "timestampFields", "uuidFields"}
FlagFields == {"timestampDriftSeconds", "ignoreUUIDs", "sortArrays"}

\* the example configuration of replay_tolerant_mode.js
ExampleTolerances ==
  Tolerances(AllToleranceFields, 5, TRUE, TRUE, ArrayFieldNames,
             TimestampFieldNames, UuidFieldNames)
\* the same with an empty arrayFields: every array is sorted
SortAllTolerances ==
  Tolerances(AllToleranceFields, 5, TRUE, TRUE, << >>,
             TimestampFieldNames, UuidFieldNames)
\* the tolerances the command line passes without --strict and with it
CliDefaultTolerances == Tolerances(FlagFields, 5, TRUE, TRUE, << >>, << >>, << >>)
CliStrictTolerances == Tolerances(FlagFields, 0, FALSE, FALSE, << >>, << >>, << >>)
\* no tolerances option at all
NoTolerances == Tolerances({}, 0, FALSE, FALSE, << >>, << >>, << >>)
\* the preset of setStrict(true)
StrictPreset == Tolerances(AllToleranceFields, 0, FALSE, FALSE, << >>, << >>, << >>)

DefaultIgnoreHeaders ==
  << <<"d","a","t","e">>, <<"c","o","n","t","e","n","t","-","l","e","n","g","t","h">>,
     <<"e","t","a","g">>, <<"c","o","n","n","e","c","t","i","o","n">> >>

Options(ignoreFields, tolerances) ==
  [ignoreHeaders |-> DefaultIgnoreHeaders, ignoreFields |-> ignoreFields,
   tolerances |-> tolerances]

IgnoreFieldsUniverse ==
  { << >>, <<IgnoreString(sName)>>, <<IgnoreString(sItems1)>>,
    <<IgnoreString(sItems)>>, <<IgnoreRegExp(sAt)>> }

TolerancesUniverse ==
  {ExampleTolerances, SortAllTolerances, CliDefaultTolerances, CliStrictTolerances,
   NoTolerances, StrictPreset}

(***************************************************************************)
(* Session replay.  A score is the exact quotient (num / den) of the       *)
(* value the code computes as a floating-point number; within one session  *)
(* the scores have the same denominator and compare as their quotients.    *)
(***************************************************************************)
Request(method, path) == [defined |-> TRUE, method |-> method, path |-> path]
\* an interaction without a request property
UndefinedRequest == [defined |-> FALSE, method |-> "", path |-> << >>]
Interaction(request, response) == [request |-> request, response |-> response]

Score(count, total) ==
  IF total > 0 THEN [num |-> count * 100, den |-> total] ELSE [num |-> 0, den |-> 1]
ScoreLeq(a, b) == a.num * b.den <= b.num * a.den
ScoreEq(a, b) == a.num * b.den = b.num * a.den

\* the summary; the fields not yet assigned hold zero
Summary(total, compatible, incompatible, errors) ==
  [total |-> total, compatible |-> compatible, incompatible |-> incompatible,
   errors |-> errors, compatibilityScore |-> Score(0, 0),
   totalChanges |-> 0, toleratedChanges |-> 0, effectiveChanges |-> 0,
   effectiveCompatible |-> 0, effectiveCompatibilityScore |-> Score(0, 0)]

NoHeaderDiffs == [added |-> << >>, removed |-> << >>, modified |-> << >>, total |-> 0]
NoComparison == Comparison(FALSE, NoHeaderDiffs, EmptyDiffs)

\* an entry of interactionResults: the result of a comparison, or an error
InteractionResult(request, original, replayed, comparison, timestamp) ==
  [request |-> [method |-> request.method, path |-> request.path],
   original |-> original, replayed |-> replayed,
   hasComparison |-> TRUE, comparison |-> comparison,
   hasError |-> FALSE, error |-> "",
   hasTimestamp |-> TRUE, timestamp |-> timestamp,
   toleratedChanges |-> 0, effectiveChanges |-> 0]

InteractionError(request, error, timestamp) ==
  [request |-> [method |-> request.method, path |-> request.path],
   original |-> UndefinedResponse, replayed |-> UndefinedResponse,
   hasComparison |-> FALSE, comparison |-> NoComparison,
   hasError |-> TRUE, error |-> error,
   hasTimestamp |-> TRUE, timestamp |-> timestamp,
   toleratedChanges |-> 0, effectiveChanges |-> 0]

NewResults(sessionId, startTime) ==
  [sessionId |-> sessionId, startTime |-> startTime, endTime |-> startTime,
   duration |-> 0, interactionResults |-> << >>, summary |-> Summary(0, 0, 0, 0)]

\* replayRequest reads request.path, and its catch block request.method:
\* without a request the TypeError leaves replayRequest
replayRequest_throws(request) == ~request.defined

\* the answer of replayRequest when the HTTP call fails
sError == <<"e", "r", "r", "o", "r">>
sMessage == <<"E", "C", "O", "N", "N", "R", "E", "F", "U", "S", "E", "D">>
FailedReplay ==
  [Response(500, Headers(<< >>, << >>), Obj(<<sError>>, <<Str(sMessage)>>))
     EXCEPT !.replayError = TRUE]

\* the catch block of the loop reads request.method as well: an exception
\* raised for an interaction without a request leaves replayAgainstContract
replayInteraction_throws(interaction) == replayRequest_throws(interaction.request)

\* replayInteraction with an error that is pushed but not counted in total
replayInteractionErrorUncounted(opts, results, interaction, replayedResponse, now) ==
  IF compareResponses_throws(opts, interaction.response, replayedResponse)
  THEN [results EXCEPT
          !.interactionResults =
             @ \o <<InteractionError(interaction.request, "TypeError", now)>>,
          !.summary.errors = @ + 1]
  ELSE LET comparisonResult ==
             compareResponses(opts, interaction.response, replayedResponse)
       IN [results EXCEPT
             !.interactionResults =
                @ \o <<InteractionResult(interaction.request, interaction.response,
                                         replayedResponse, comparisonResult, now)>>,
             !.summary.total = @ + 1,
             !.summary.compatible = IF comparisonResult.isCompatible THEN @ + 1 ELSE @,
             !.summary.incompatible = IF comparisonResult.isCompatible THEN @ ELSE @ + 1]

\* one pass of the loop of replayAgainstContract, replayedResponse being the
\* answer of replayRequest
replayInteraction(opts, results, interaction, replayedResponse, now) ==
  IF compareResponses_throws(opts, interaction.response, replayedResponse)
  THEN [results EXCEPT
          !.interactionResults =
             @ \o <<InteractionError(interaction.request, "TypeError", now)>>,
          !.summary.total = @ + 1,
          !.summary.errors = @ + 1]
  ELSE LET comparisonResult ==
             compareResponses(opts, interaction.response, replayedResponse)
       IN [results EXCEPT
             !.interactionResults =
                @ \o <<InteractionResult(interaction.request, interaction.response,
                                         replayedResponse, comparisonResult, now)>>,
             !.summary.total = @ + 1,
             !.summary.compatible = IF comparisonResult.isCompatible THEN @ + 1 ELSE @,
             !.summary.incompatible = IF comparisonResult.isCompatible THEN @ ELSE @ + 1]

\* the end of replayAgainstContract, after the loop
finishReplay(results, now) ==
  [results EXCEPT
     !.endTime = now,
     !.duration = now - results.startTime,
     !.summary.compatibilityScore =
        Score(results.summary.compatible, results.summary.total)]

RECURSIVE SumSeq(_)
SumSeq(seq) == IF Len(seq) = 0 THEN 0 ELSE Head(seq) + SumSeq(Tail(seq))

interactionTotal(interaction) ==
  interaction.comparison.headerDiffs.total + interaction.comparison.bodyDiffs.total
\* headerDiffs has no tolerated property: (undefined || 0)
interactionTolerated(interaction) == interaction.comparison.bodyDiffs.tolerated + 0

\* updateVerificationSummary counting the tolerated interactions alone as
\* effectively compatible
updateVerificationSummaryToleratedOnly(result) ==
  LET toleratedInteractions ==
        Len(SelectSeq(result.interactionResults, LAMBDA interaction :
              /\ interaction.hasComparison
              /\ ~interaction.comparison.isCompatible
              /\ interactionTotal(interaction) - interactionTolerated(interaction) = 0))
  IN [result EXCEPT
        !.summary.effectiveCompatible = toleratedInteractions,
        !.summary.effectiveCompatibilityScore =
           Score(toleratedInteractions, result.summary.total)]

updateVerificationSummary(result) ==
  LET updated ==
        [i \in 1..Len(result.interactionResults) |->
           LET interaction == result.interactionResults[i]
           IN IF interaction.hasComparison
              THEN [interaction EXCEPT
                      !.toleratedChanges = interactionTolerated(interaction),
                      !.effectiveChanges = interactionTotal(interaction)
                                             - interactionTolerated(interaction)]
              ELSE interaction]
      compared == SelectSeq(updated, LAMBDA interaction : interaction.hasComparison)
      totalChanges == SumSeq([i \in 1..Len(compared) |-> interactionTotal(compared[i])])
      toleratedChanges ==
        SumSeq([i \in 1..Len(compared) |-> interactionTolerated(compared[i])])
      toleratedInteractions ==
        Len(SelectSeq(updated, LAMBDA interaction :
              /\ interaction.hasComparison
              /\ ~interaction.comparison.isCompatible
              /\ interaction.effectiveChanges = 0))
      effectiveCompatible ==
        IF result.summary.total > 0
        THEN result.summary.compatible + toleratedInteractions
        ELSE 0
  IN [result EXCEPT
        !.interactionResults = updated,
        !.summary.totalChanges = totalChanges,
        !.summary.toleratedChanges = toleratedChanges,
        !.summary.effectiveChanges = totalChanges - toleratedChanges,
        !.summary.effectiveCompatible = effectiveCompatible,
        !.summary.effectiveCompatibilityScore =
           IF result.summary.total > 0
           THEN Score(effectiveCompatible, result.summary.total)
           ELSE Score(0, 0)]

\* setStrict(true) and setStrict(false) on the pair
\* (options.tolerances, _originalTolerances)
NoOriginalTolerances == [saved |-> FALSE, tolerances |-> NoTolerances]
SavedTolerances(tolerances) == [saved |-> TRUE, tolerances |-> tolerances]

\* setStrict saving the tolerances in force at every call with true
setStrictSavingAgain(state, strict) ==
  IF strict
  THEN [tolerances |-> StrictPreset, original |-> SavedTolerances(state.tolerances)]
  ELSE IF state.original.saved
       THEN [tolerances |-> state.original.tolerances,
             original |-> NoOriginalTolerances]
       ELSE state

setStrict(state, strict) ==
  IF strict
  THEN [tolerances |-> StrictPreset,
        original |-> IF ~state.original.saved
                     THEN SavedTolerances(state.tolerances)
                     ELSE state.original]
  ELSE IF state.original.saved
       THEN [tolerances |-> state.original.tolerances,
             original |-> NoOriginalTolerances]
       ELSE state

(***************************************************************************)
(* The verifier as a state machine: a caller loads a session file, sets    *)
(* the strictness and replays the session, one interaction at a time.      *)
(***************************************************************************)
MaxInteractions == 2
MaxCalls == 3

SessionIds == {"s1", "s2"}

HeadersPlain == Headers(<<sContentType, sDate>>, <<sJson, sA>>)
HeadersLater == Headers(<<toLowerCase(sContentType), sDate>>, <<sJson, sB>>)
HeadersTraced == Headers(<<sContentType, sXTrace>>, <<sJson, sA>>)

\* the recorded interactions of a session file, which may lack properties
InteractionPool ==
  { Interaction(Request("GET", <<"/", "a">>),
                Response(200, HeadersPlain, Obj1(sCreatedAt, Str(sIso)))),
    Interaction(Request("GET", <<"/", "b">>),
                Response(200, HeadersPlain, Obj1(sName, Str(sA)))),
    Interaction(Request("GET", <<"/", "c">>), UndefinedResponse),
    Interaction(UndefinedRequest, Response(200, HeadersPlain, Obj1(sName, Str(sA)))) }

\* the answers of the target API
ReplayedResponses ==
  { Response(200, HeadersLater, Obj1(sCreatedAt, Str(sIsoMillis))),
    Response(200, HeadersLater, Obj1(sCreatedAt, Str(sIsoPlus2))),
    Response(200, HeadersLater, Obj1(sName, Str(sA))),
    Response(500, HeadersLater, Obj1(sName, Str(sA))),
    Response(200, HeadersTraced, Obj1(sName, Str(sB))) }

SeqsUpTo(S, n) == UNION {[1..k -> S] : k \in 0..n}

SessionFiles ==
  {[sessionId |-> "s1", interactions |-> interactions] :
     interactions \in SeqsUpTo(InteractionPool, MaxInteractions)}

NoSession == [loaded |-> FALSE, data |-> [sessionId |-> "", interactions |-> << >>]]
NoResults == [stored |-> FALSE, results |-> NewResults("", 0)]

VARIABLES
  options,              \* this.options
  _originalTolerances,  \* this._originalTolerances
  originalSessions,     \* this.originalSessions
  replayResults,        \* this.replayResults
  results,              \* the results object of the replay under way
  cursor,               \* the interactions the loop has gone through
  pc,                   \* "idle", or "replaying" inside replayAgainstContract
  clock,                \* the time new Date() reads
  calls,                \* the calls made to the verifier
  lastError             \* the exception the last call ended with, or ""

varsReplay == <<options, _originalTolerances, originalSessions, replayResults,
                results, cursor, pc, clock, calls, lastError>>

InitReplay ==
  /\ options \in {Options(ignoreFields, tolerances) :
                    ignoreFields \in {<< >>, <<IgnoreString(sName)>>},
                    tolerances \in {ExampleTolerances, CliDefaultTolerances,
                                    CliStrictTolerances, NoTolerances}}
  /\ _originalTolerances = NoOriginalTolerances
  /\ originalSessions = [id \in SessionIds |-> NoSession]
  /\ replayResults = [id \in SessionIds |-> NoResults]
  /\ results = NewResults("", 0)
  /\ cursor = 0
  /\ pc = "idle"
  /\ clock = 0
  /\ calls = 0
  /\ lastError = ""

\* the verifier at rest, with no session loaded
IdleReplay ==
  /\ options = Options(<< >>, NoTolerances)
  /\ _originalTolerances = NoOriginalTolerances
  /\ originalSessions = [id \in SessionIds |-> NoSession]
  /\ replayResults = [id \in SessionIds |-> NoResults]
  /\ results = NewResults("", 0)
  /\ cursor = 0
  /\ pc = "idle"
  /\ clock = 0
  /\ calls = 0
  /\ lastError = ""

\* loadSession(sessionFilePath)
LoadSession(session) ==
  /\ pc = "idle"
  /\ calls < MaxCalls
  /\ calls' = calls + 1
  /\ originalSessions' =
       [originalSessions EXCEPT ![session.sessionId] = [loaded |-> TRUE, data |-> session]]
  /\ lastError' = ""
  /\ UNCHANGED <<options, _originalTolerances, replayResults, results, cursor, pc, clock>>

\* setStrict(strict) with a boolean argument
SetStrict(strict) ==
  /\ pc = "idle"
  /\ calls < MaxCalls
  /\ calls' = calls + 1
  /\ LET after == setStrict([tolerances |-> options.tolerances,
                             original |-> _originalTolerances], strict)
     IN /\ options' = [options EXCEPT !.tolerances = after.tolerances]
        /\ _originalTolerances' = after.original
  /\ lastError' = ""
  /\ UNCHANGED <<originalSessions, replayResults, results, cursor, pc, clock>>

\* setStrict(strict) with an argument that is no boolean
SetStrictRejected ==
  /\ pc = "idle"
  /\ calls < MaxCalls
  /\ calls' = calls + 1
  /\ lastError' = "setStrict() expects a boolean argument"
  /\ UNCHANGED <<options, _originalTolerances, originalSessions, replayResults,
                 results, cursor, pc, clock>>

\* replayAgainstContract(sessionId, targetBaseUrl) up to its loop
StartReplay(sessionId) ==
  /\ pc = "idle"
  /\ calls < MaxCalls
  /\ calls' = calls + 1
  /\ IF ~originalSessions[sessionId].loaded
     THEN /\ lastError' = "Session not found"
          /\ UNCHANGED <<results, cursor, pc, clock>>
     ELSE /\ results' = NewResults(sessionId, clock)
          /\ cursor' = 0
          /\ pc' = "replaying"
          /\ clock' = clock + 1
          /\ lastError' = ""
  /\ UNCHANGED <<options, _originalTolerances, originalSessions, replayResults>>

\* one pass of the loop: replayRequest answers replayedResponse
ReplayInteraction(replayedResponse) ==
  /\ pc = "replaying"
  /\ cursor < Len(originalSessions[results.sessionId].data.interactions)
  /\ LET interaction == originalSessions[results.sessionId].data.interactions[cursor + 1]
     IN IF replayInteraction_throws(interaction)
        THEN /\ pc' = "idle"
             /\ lastError' = "TypeError"
             /\ results' = NewResults("", 0)
             /\ cursor' = 0
             /\ UNCHANGED clock
        ELSE /\ results' = replayInteraction(options, results, interaction,
                                             replayedResponse, clock)
             /\ cursor' = cursor + 1
             /\ clock' = clock + 1
             /\ UNCHANGED <<pc, lastError>>
  /\ UNCHANGED <<options, _originalTolerances, originalSessions, replayResults, calls>>

\* the end of replayAgainstContract and, in the tolerant verifier, the
\* updateVerificationSummary that follows it
FinishReplay ==
  /\ pc = "replaying"
  /\ cursor = Len(originalSessions[results.sessionId].data.interactions)
  /\ replayResults' =
       [replayResults EXCEPT ![results.sessionId] =
          [stored |-> TRUE,
           results |-> updateVerificationSummary(finishReplay(results, clock))]]
  /\ results' = NewResults("", 0)
  /\ cursor' = 0
  /\ pc' = "idle"
  /\ clock' = clock + 1
  /\ UNCHANGED <<options, _originalTolerances, originalSessions, calls, lastError>>

ReplayOutcomes == ReplayedResponses \cup {FailedReplay}

(***************************************************************************)
(* The judge applied to one pair of responses, by the base verifier of     *)
(* part_004 and by the tolerant verifier.                                  *)
(***************************************************************************)
VARIABLES
  cOptions,    \* the options of the verifier
  cOriginal,   \* the recorded response
  cReplayed,   \* the replayed response
  cBase,       \* what compareResponses of the base verifier gave
  cTolerant    \* what compareResponses of the tolerant verifier gave

varsCompare == <<cOptions, cOriginal, cReplayed, cBase, cTolerant>>

NotCompared == [done |-> FALSE, threw |-> FALSE, comparison |-> NoComparison]
Compared(threw, comparison) ==
  [done |-> TRUE, threw |-> threw,
   comparison |-> IF threw THEN NoComparison ELSE comparison]

\* the responses compared: every body under the plain headers, and the
\* other status codes and headers around one body
ComparedResponses ==
  {Response(200, HeadersPlain, body) : body \in Bodies}
    \cup {Response(500, HeadersPlain, Obj1(sName, Str(sA))),
          Response(200, HeadersLater, Obj1(sName, Str(sA))),
          Response(200, HeadersTraced, Obj1(sName, Str(sA))),
          Response(200, Headers(<<sContentType, sEtag>>, <<sText, sA>>),
                   Obj1(sName, Str(sA))),
          Response(200, Headers(<< >>, << >>), Obj1(sName, Str(sA)))}

ComparedOptions ==
  {Options(<< >>, tolerances) : tolerances \in TolerancesUniverse}
    \cup {Options(ignoreFields, tolerances) :
            ignoreFields \in IgnoreFieldsUniverse,
            tolerances \in {ExampleTolerances, StrictPreset}}

IdleCompare ==
  /\ cOptions = Options(<< >>, NoTolerances)
  /\ cOriginal = UndefinedResponse
  /\ cReplayed = UndefinedResponse
  /\ cBase = NotCompared
  /\ cTolerant = NotCompared

InitCompare ==
  /\ cOptions \in ComparedOptions
  /\ cOriginal \in ComparedResponses
  /\ cReplayed \in ComparedResponses
  /\ cBase = NotCompared
  /\ cTolerant = NotCompared

CompareBase ==
  /\ ~cBase.done
  /\ cBase' = Compared(compareResponsesBase_throws(cOptions, cOriginal, cReplayed),
                       compareResponsesBase(cOptions, cOriginal, cReplayed))
  /\ UNCHANGED <<cOptions, cOriginal, cReplayed, cTolerant>>

CompareTolerant ==
  /\ ~cTolerant.done
  /\ cTolerant' = Compared(compareResponses_throws(cOptions, cOriginal, cReplayed),
                           compareResponses(cOptions, cOriginal, cReplayed))
  /\ UNCHANGED <<cOptions, cOriginal, cReplayed, cBase>>

(***************************************************************************)
(* One session replayed twice against the same answers: with a tolerance   *)
(* configuration, and with that configuration and one more rule.           *)
(***************************************************************************)
MaxExchanges == 2

VARIABLES
  mExchanges,  \* the interactions of the session, each with its answer
  mBefore,     \* the tolerances of the first run
  mAfter,      \* the tolerances of the second run
  mRule,       \* the rule the second run adds
  mResultBefore,
  mResultAfter

varsTolerance == <<mExchanges, mBefore, mAfter, mRule, mResultBefore, mResultAfter>>

\* replayAgainstContract as a whole, for a session whose interactions have
\* their requests
RECURSIVE replayAll(_, _, _, _)
replayAll(opts, res, exchanges, now) ==
  IF Len(exchanges) = 0
  THEN updateVerificationSummary(finishReplay(res, now))
  ELSE replayAll(opts,
                 replayInteraction(opts, res, Head(exchanges).interaction,
                                   Head(exchanges).replayed, now),
                 Tail(exchanges), now + 1)

replayAgainstContract(opts, exchanges) ==
  replayAll(opts, NewResults("s1", 0), exchanges, 1)

Exchange(originalBody, status, replayedBody) ==
  [interaction |-> Interaction(Request("GET", <<"/", "a">>),
                               Response(200, HeadersPlain, originalBody)),
   replayed |-> Response(status, HeadersLater, replayedBody)]

ExchangePool ==
  { Exchange(Obj1(sName, Str(sA)), 200, Obj1(sName, Str(sA))),
    Exchange(Obj1(sName, Str(sA)), 500, Obj1(sName, Str(sA))),
    Exchange(Obj1(sId, Str(sUuid1)), 500, Obj1(sId, Str(sUuid2))),
    Exchange(Obj1(sCreatedAt, Str(sIso)), 500, Obj1(sCreatedAt, Str(sIsoPlus2))),
    Exchange(Obj(<<sCreatedAt, sWhen>>, <<Str(sIso), Str(sIso)>>), 500,
             Obj(<<sCreatedAt, sWhen>>, <<Str(sIsoPlus2), Str(sIsoMillis)>>)),
    Exchange(Obj1(sItems, Arr(<<Str(sA), nOne>>)), 200,
             Obj1(sItems, Arr(<<nOne, Str(sA)>>))),
    Exchange(Obj1(sItems, Arr(<<nOne, Str(sA)>>)), 200,
             Obj1(sItems, Arr(<<nOne, Str(sZero)>>))),
    Exchange(Obj1(sData, Arr(<<Str(sB), Str(sA)>>)), 200,
             Obj1(sData, Arr(<<Str(sA), Str(sB)>>))) }

FullTolerances(drift, ignoreUUIDs, sortArrays, arrayFields) ==
  Tolerances(AllToleranceFields, drift, ignoreUUIDs, sortArrays, arrayFields,
             TimestampFieldNames, UuidFieldNames)

BaseTolerances ==
  {FullTolerances(drift, ignoreUUIDs, sortArrays, arrayFields) :
     drift \in {0, 5}, ignoreUUIDs \in BOOLEAN, sortArrays \in BOOLEAN,
     arrayFields \in {<< >>, <<sItems>>}}

Rules == {"raise timestampDriftSeconds", "enable ignoreUUIDs", "enable sortArrays",
          "add arrayFields entry"}

\* the configurations one more rule leads to
withRule(tolerances, rule) ==
  IF rule = "raise timestampDriftSeconds"
  THEN [tolerances EXCEPT !.timestampDriftSeconds = @ + 5]
  ELSE IF rule = "enable ignoreUUIDs"
  THEN [tolerances EXCEPT !.ignoreUUIDs = TRUE]
  ELSE IF rule = "enable sortArrays"
  THEN [tolerances EXCEPT !.sortArrays = TRUE]
  ELSE [tolerances EXCEPT !.arrayFields = @ \o <<sData>>]

ruleApplies(tolerances, rule) ==
  IF rule = "raise timestampDriftSeconds" THEN TRUE
  ELSE IF rule = "enable ignoreUUIDs" THEN ~tolerances.ignoreUUIDs
  ELSE IF rule = "enable sortArrays" THEN ~tolerances.sortArrays
  ELSE TRUE

NotReplayed == [done |-> FALSE, results |-> NewResults("", 0)]

IdleTolerance ==
  /\ mExchanges = << >>
  /\ mBefore = NoTolerances
  /\ mAfter = NoTolerances
  /\ mRule = ""
  /\ mResultBefore = NotReplayed
  /\ mResultAfter = NotReplayed

InitTolerance ==
  /\ mExchanges \in SeqsUpTo(ExchangePool, MaxExchanges)
  /\ mBefore \in BaseTolerances
  /\ mRule \in {rule \in Rules : ruleApplies(mBefore, rule)}
  /\ mAfter = withRule(mBefore, mRule)
  /\ mResultBefore = NotReplayed
  /\ mResultAfter = NotReplayed

ReplayBefore ==
  /\ ~mResultBefore.done
  /\ mResultBefore' =
       [done |-> TRUE,
        results |-> replayAgainstContract(Options(<< >>, mBefore), mExchanges)]
  /\ UNCHANGED <<mExchanges, mBefore, mAfter, mRule, mResultAfter>>

ReplayAfter ==
  /\ ~mResultAfter.done
  /\ mResultAfter' =
       [done |-> TRUE,
        results |-> replayAgainstContract(Options(<< >>, mAfter), mExchanges)]
  /\ UNCHANGED <<mExchanges, mBefore, mAfter, mRule, mResultBefore>>

(***************************************************************************)
(* Session recorder (interaction_tagger.js): JSON.stringify, key sorting   *)
(* and the content hash of a captured request.  The digest of SHA-256 is   *)
(* kept as the text it was computed from: equal texts give equal digests   *)
(* and, no collision being known, different texts different digests.       *)
(***************************************************************************)
\* the printable characters in the order of their code units: 32 to 95, and
\* 97 to 126
AsciiChars ==
  <<" ", "!", "\"", "#", "$", "%", "&", "'", "(", ")", "*", "+", ",", "-", ".", "/",
    "0", "1", "2", "3", "4", "5", "6", "7", "8", "9", ":", ";", "<", "=", ">", "?", "@",
    "A", "B", "C", "D", "E", "F", "G", "H", "I", "J", "K", "L", "M",
    "N", "O", "P", "Q", "R", "S", "T", "U", "V", "W", "X", "Y", "Z",
    "[", "\\", "]", "^", "_">>

AsciiLowerChars == LowerChars \o <<"{", "|", "}", "~">>

charCodeAt(c) ==
  IF c \in Range(AsciiChars)
  THEN 31 + (CHOOSE i \in 1..Len(AsciiChars) : AsciiChars[i] = c)
  ELSE 96 + (CHOOSE i \in 1..Len(AsciiLowerChars) : AsciiLowerChars[i] = c)

\* a < b for two strings, by code units: the order of Array.prototype.sort()
RECURSIVE codeUnitLess(_, _)
codeUnitLess(a, b) ==
  IF Len(b) = 0 THEN FALSE
  ELSE IF Len(a) = 0 THEN TRUE
  ELSE IF a[1] = b[1] THEN codeUnitLess(Tail(a), Tail(b))
  ELSE charCodeAt(a[1]) < charCodeAt(b[1])

RECURSIVE insertKey(_, _)
insertKey(sorted, key) ==
  IF Len(sorted) = 0 THEN <<key>>
  ELSE IF codeUnitLess(key, sorted[1]) THEN <<key>> \o sorted
  ELSE <<sorted[1]>> \o insertKey(Tail(sorted), key)

\* keys.sort()
RECURSIVE sortKeys(_)
sortKeys(keys) ==
  IF Len(keys) = 0 THEN << >>
  ELSE insertKey(sortKeys(SubSeq(keys, 1, Len(keys) - 1)), keys[Len(keys)])

\* a property name that is an array index: '0', or digits without a leading 0
isArrayIndex(key) ==
  /\ Len(key) \in 1..9
  /\ AllDigits(key)
  /\ (Len(key) = 1 \/ key[1] # "0")

RECURSIVE insertIndexKey(_, _)
insertIndexKey(sorted, key) ==
  IF Len(sorted) = 0 THEN <<key>>
  ELSE IF digitsToInt(key) < digitsToInt(sorted[1]) THEN <<key>> \o sorted
  ELSE <<sorted[1]>> \o insertIndexKey(Tail(sorted), key)

RECURSIVE sortIndexKeys(_)
sortIndexKeys(keys) ==
  IF Len(keys) = 0 THEN << >>
  ELSE insertIndexKey(sortIndexKeys(SubSeq(keys, 1, Len(keys) - 1)), keys[Len(keys)])

\* Object.keys(obj): the index keys in ascending order, then the other keys
\* in the order they were inserted
ObjectKeys(obj) ==
  sortIndexKeys(SelectSeq(obj.keys, isArrayIndex))
    \o SelectSeq(obj.keys, LAMBDA key : ~isArrayIndex(key))

\* normalizeForHashing without the sort of the keys
RECURSIVE normalizeForHashingUnsorted(_)
normalizeForHashingUnsorted(data) ==
  IF data.t = "array"
  THEN Arr([i \in 1..Len(data.vals) |-> normalizeForHashingUnsorted(data.vals[i])])
  ELSE IF data.t = "object"
  THEN LET keys == ObjectKeys(data)
       IN Obj(keys, [i \in 1..Len(keys) |-> normalizeForHashingUnsorted(Get(data, keys[i]))])
  ELSE data

\* normalizeForHashing(data)
RECURSIVE normalizeForHashing(_)
normalizeForHashing(data) ==
  IF data.t = "array"
  THEN Arr([i \in 1..Len(data.vals) |-> normalizeForHashing(data.vals[i])])
  ELSE IF data.t = "object"
  THEN LET keys == sortKeys(ObjectKeys(data))
       IN Obj(keys, [i \in 1..Len(keys) |-> normalizeForHashing(Get(data, keys[i]))])
  ELSE data

\* a string between quotes, with " and \ escaped
RECURSIVE quoteChars(_)
quoteChars(s) ==
  IF Len(s) = 0 THEN << >>
  ELSE (IF s[1] \in {"\"", "\\"} THEN <<"\\", s[1]>> ELSE <<s[1]>>) \o quoteChars(Tail(s))

quote(s) == <<"\"">> \o quoteChars(s) \o <<"\"">>

\* JSON.stringify(value) for a value that is not undefined: a property whose
\* value is undefined is left out, an undefined element is written as null
RECURSIVE stringify(_)
stringify(v) ==
  IF v.t = "string" THEN quote(v.s)
  ELSE IF v.t = "undefined" THEN <<"n", "u", "l", "l">>
  ELSE IF v.t = "array"
  THEN <<"[">> \o join([i \in 1..Len(v.vals) |-> stringify(v.vals[i])], <<",">>) \o <<"]">>
  ELSE IF v.t = "object"
  THEN LET keys == SelectSeq(ObjectKeys(v), LAMBDA key : Get(v, key).t # "undefined")
       IN <<"{">>
            \o join([i \in 1..Len(keys) |->
                       quote(keys[i]) \o <<":">> \o stringify(Get(v, keys[i]))], <<",">>)
            \o <<"}">>
  ELSE String(v)

\* crypto.createHash('sha256').update(text).digest('hex')
sha256hex(text) == [algorithm |-> "sha256", text |-> text]

\* generateContentHash(data)
generateContentHash(data) ==
  IF data.t = "string" THEN sha256hex(data.s)
  ELSE sha256hex(stringify(normalizeForHashing(data)))

\* the truth value of a value in a condition
truthy(v) ==
  IF v.t \in {"undefined", "null"} THEN FALSE
  ELSE IF v.t = "boolean" THEN v.b
  ELSE IF v.t = "number" THEN v.hi # 0 \/ v.lo # 0
  ELSE IF v.t = "string" THEN Len(v.s) > 0
  ELSE TRUE

\* JSON.parse(JSON.stringify(data)) for a value that is not undefined
RECURSIVE jsonClone(_)
jsonClone(v) ==
  IF v.t = "undefined" THEN Null
  ELSE IF v.t = "array" THEN Arr([i \in 1..Len(v.vals) |-> jsonClone(v.vals[i])])
  ELSE IF v.t = "object"
  THEN LET keys == SelectSeq(ObjectKeys(v), LAMBDA key : Get(v, key).t # "undefined")
       IN Obj(keys, [i \in 1..Len(keys) |-> jsonClone(Get(v, keys[i]))])
  ELSE v

sPassword == <<"p", "a", "s", "s", "w", "o", "r", "d">>
sToken == <<"t", "o", "k", "e", "n">>
sSecret == <<"s", "e", "c", "r", "e", "t">>
sKey == <<"k", "e", "y">>
sAuthorization == <<"a", "u", "t", "h", "o", "r", "i", "z", "a", "t", "i", "o", "n">>
sCookie == <<"c", "o", "o", "k", "i", "e">>
sSetCookie == <<"s", "e", "t", "-", "c", "o", "o", "k", "i", "e">>
sRedacted == <<"[", "R", "E", "D", "A", "C", "T", "E", "D", "]">>
sMethod == <<"m", "e", "t", "h", "o", "d">>
sPath == <<"p", "a", "t", "h">>
sQuery == <<"q", "u", "e", "r", "y">>
sBody == <<"b", "o", "d", "y">>
sHeaders == <<"h", "e", "a", "d", "e", "r", "s">>

\* the options of the recorder's constructor
sensitiveHeaders == <<sAuthorization, sCookie, sSetCookie>>
sensitiveFields == <<sPassword, sToken, sSecret, sKey, sAuthorization>>
RecorderOptions(includeHeaders, includeBody) ==
  [includeHeaders |-> includeHeaders, includeBody |-> includeBody]

\* recursiveSanitize(obj), as the value obj holds afterwards
RECURSIVE recursiveSanitize(_)
recursiveSanitize(obj) ==
  IF obj.t \notin {"object", "array"} THEN obj
  ELSE LET sanitized(key, value) ==
             IF \E i \in 1..Len(sensitiveFields) : includes(toLowerCase(key), sensitiveFields[i])
             THEN Str(sRedacted)
             ELSE recursiveSanitize(value)
       IN IF obj.t = "array"
          THEN Arr([i \in 1..Len(obj.vals) |-> sanitized(indexToString(i - 1), obj.vals[i])])
          ELSE Obj(obj.keys, [i \in 1..Len(obj.keys) |-> sanitized(obj.keys[i], obj.vals[i])])

\* sanitizeData(data)
sanitizeData(data) == recursiveSanitize(jsonClone(data))

\* filterSensitiveHeaders(headers)
filterSensitiveHeaders(headers) ==
  Obj(headers.keys,
      [i \in 1..Len(headers.keys) |->
         IF /\ \E j \in 1..Len(sensitiveHeaders) : sensitiveHeaders[j] = headers.keys[i]
            /\ truthy(headers.vals[i])
         THEN Str(sRedacted)
         ELSE headers.vals[i]])

\* the request the server hands to the recorder
IncomingRequest(method, path, query, headers, body) ==
  [method |-> method, path |-> path, query |-> query, headers |-> headers, body |-> body]

\* captureRequest(req); a property that is not set is undefined
captureRequest(opts, req) ==
  [method |-> req.method,
   path |-> req.path,
   query |-> IF truthy(req.query) THEN req.query ELSE Obj(<< >>, << >>),
   headers |-> IF opts.includeHeaders THEN filterSensitiveHeaders(req.headers) ELSE Undefined,
   body |-> IF opts.includeBody /\ truthy(req.body) THEN sanitizeData(req.body) ELSE Undefined]

IncomingResponse(statusCode, body, duration) ==
  [statusCode |-> statusCode, body |-> body, duration |-> duration]

\* captureResponse(res)
captureResponse(opts, res) ==
  [statusCode |-> res.statusCode,
   body |-> IF opts.includeBody /\ truthy(res.body) THEN res.body ELSE Undefined]

RecordedInteraction(timestamp, requestHash, request, response, duration) ==
  [timestamp |-> timestamp, requestHash |-> requestHash, request |-> request,
   response |-> response, duration |-> duration]

\* recordInteraction hashing the whole captured request
recordInteractionHashingHeaders(opts, req, res, now) ==
  LET request == captureRequest(opts, req)
  IN RecordedInteraction(
       now,
       generateContentHash(Obj(<<sMethod, sPath, sQuery, sHeaders, sBody>>,
                               <<request.method, request.path, request.query,
                                 request.headers, request.body>>)),
       request, captureResponse(opts, res),
       IF truthy(res.duration) THEN res.duration ELSE Null)

\* recordInteraction(req, res): the interaction pushed to the current session
recordInteraction(opts, req, res, now) ==
  LET request == captureRequest(opts, req)
  IN RecordedInteraction(
       now,
       generateContentHash(Obj(<<sMethod, sPath, sQuery, sBody>>,
                               <<request.method, request.path, request.query,
                                 request.body>>)),
       request, captureResponse(opts, res),
       IF truthy(res.duration) THEN res.duration ELSE Null)

(***************************************************************************)
(* The recorder as a state machine: startRecording, recordInteraction and  *)
(* stopRecording on requests that differ in method, query, headers and     *)
(* body, answered with different durations at different times.             *)
(***************************************************************************)
MaxRecorded == 2
MaxSessions == 1

sGet == <<"G", "E", "T">>
sPost == <<"P", "O", "S", "T">>
sPathA == <<"/", "a">>
sAccept == <<"a", "c", "c", "e", "p", "t">>

RecordedRequests ==
  {IncomingRequest(Str(method), Str(sPathA), query, headers, body) :
     method \in {sGet, sPost},
     query \in {Undefined, Obj(<<sA, sB>>, <<Str(sA), Str(sB)>>)},
     headers \in {Obj1(sAccept, Str(sJson)),
                  Obj(<<sAccept, sCookie>>, <<Str(sJson), Str(sA)>>)},
     body \in {Undefined, Obj1(sName, Str(sA)), Obj1(sPassword, Str(sB))}}

RecordedResponses ==
  {IncomingResponse(200, Obj1(sName, Str(sA)), duration) :
     duration \in {Undefined, Num(0, 5)}}

NoCurrentSession == [id |-> "", startTime |-> 0, interactions |-> << >>]

VARIABLES
  recorderOptions,  \* this.options of the recorder
  sessions,         \* this.sessions
  currentSession,   \* this.currentSession, NoCurrentSession for null
  isRecording,      \* this.isRecording
  recorderClock,    \* the time new Date() reads
  recorderReturned  \* what the last call returned

varsRecorder == <<recorderOptions, sessions, currentSession, isRecording,
                  recorderClock, recorderReturned>>

IdleRecorder ==
  /\ recorderOptions = RecorderOptions(TRUE, TRUE)
  /\ sessions = << >>
  /\ currentSession = NoCurrentSession
  /\ isRecording = FALSE
  /\ recorderClock = 0
  /\ recorderReturned = "none"

InitRecorder ==
  /\ recorderOptions \in {RecorderOptions(includeHeaders, includeBody) :
                            includeHeaders \in BOOLEAN, includeBody \in BOOLEAN}
  /\ sessions = << >>
  /\ currentSession = NoCurrentSession
  /\ isRecording = FALSE
  /\ recorderClock = 0
  /\ recorderReturned = "none"

\* startRecording without its test of isRecording
StartRecordingAnew(sessionName) ==
  /\ Len(sessions) < MaxSessions
  /\ currentSession' = [id |-> sessionName, startTime |-> recorderClock,
                        interactions |-> << >>]
  /\ isRecording' = TRUE
  /\ recorderClock' = recorderClock + 1
  /\ recorderReturned' = IF isRecording THEN "false" ELSE "true"
  /\ UNCHANGED <<recorderOptions, sessions>>

\* startRecording(sessionName)
StartRecording(sessionName) ==
  /\ Len(sessions) < MaxSessions
  /\ IF isRecording
     THEN /\ recorderReturned' = "false"
          /\ UNCHANGED <<currentSession, isRecording, recorderClock>>
     ELSE /\ currentSession' = [id |-> sessionName, startTime |-> recorderClock,
                                interactions |-> << >>]
          /\ isRecording' = TRUE
          /\ recorderClock' = recorderClock + 1
          /\ recorderReturned' = "true"
  /\ UNCHANGED <<recorderOptions, sessions>>

\* stopRecording()
StopRecording ==
  /\ IF ~isRecording
     THEN /\ recorderReturned' = "null"
          /\ UNCHANGED <<sessions, currentSession, isRecording>>
     ELSE /\ sessions' = Append(sessions, currentSession)
          /\ currentSession' = NoCurrentSession
          /\ isRecording' = FALSE
          /\ recorderReturned' = "session"
  /\ UNCHANGED <<recorderOptions, recorderClock>>

\* recordInteraction(req, res)
RecordInteraction(req, res) ==
  /\ Len(currentSession.interactions) < MaxRecorded
  /\ IF ~isRecording
     THEN /\ recorderReturned' = "false"
          /\ UNCHANGED <<currentSession, recorderClock>>
     ELSE /\ currentSession' =
               [currentSession EXCEPT !.interactions =
                  Append(@, recordInteraction(recorderOptions, req, res, recorderClock))]
          /\ recorderClock' = recorderClock + 1
          /\ recorderReturned' = "true"
  /\ UNCHANGED <<recorderOptions, sessions, isRecording>>

(***************************************************************************)
(* generateContentHash applied to two structured values.                   *)
(***************************************************************************)
sNine == <<"9">>
sTen == <<"1", "0">>

ObjectAB == Obj(<<sA, sB>>, <<nOne, nTwo>>)
ObjectBA == Obj(<<sB, sA>>, <<nTwo, nOne>>)

HashedValues ==
  { ObjectAB, ObjectBA,
    Obj(<<sA, sB>>, <<nOne, nOne>>),
    Obj(<<sA, sB>>, <<nTwo, nOne>>),
    Obj(<<sTen, sNine, sA>>, <<nOne, nTwo, nOne>>),
    Obj(<<sA, sNine, sTen>>, <<nOne, nTwo, nOne>>),
    Obj(<<sData, sId>>, <<ObjectAB, nOne>>),
    Obj(<<sId, sData>>, <<nOne, ObjectBA>>),
    Obj(<<sId, sData>>, <<nOne, Null>>),
    Arr(<<nOne, nTwo>>), Arr(<<nTwo, nOne>>),
    Arr(<<ObjectAB, ObjectBA>>), Arr(<<ObjectBA, ObjectAB>>),
    Arr(<<ObjectAB, nOne>>), Arr(<<nOne, ObjectBA>>),
    Obj1(sItems, Arr(<<Str(sA), Str(sB)>>)),
    Obj1(sItems, Arr(<<Str(sB), Str(sA)>>)),
    Obj(<<sItems, sName>>, <<Arr(<<ObjectAB>>), Str(sA)>>),
    Obj(<<sName, sItems>>, <<Str(sA), Arr(<<ObjectBA>>)>>) }

NoHash == [algorithm |-> "none", text |-> << >>]

VARIABLES
  hLeft,       \* the first value
  hRight,      \* the second value
  hLeftHash,   \* generateContentHash(hLeft), once computed
  hRightHash   \* generateContentHash(hRight), once computed

varsHash == <<hLeft, hRight, hLeftHash, hRightHash>>

IdleHash ==
  /\ hLeft = Null
  /\ hRight = Null
  /\ hLeftHash = NoHash
  /\ hRightHash = NoHash

InitHash ==
  /\ hLeft \in HashedValues
  /\ hRight \in HashedValues
  /\ hLeftHash = NoHash
  /\ hRightHash = NoHash

HashLeft ==
  /\ hLeftHash = NoHash
  /\ hLeftHash' = generateContentHash(hLeft)
  /\ UNCHANGED <<hLeft, hRight, hRightHash>>

HashRight ==
  /\ hRightHash = NoHash
  /\ hRightHash' = generateContentHash(hRight)
  /\ UNCHANGED <<hLeft, hRight, hLeftHash>>

(***************************************************************************)
(* Route resolver (part_000, part_002).  A route pattern is a sequence of  *)
(* '/'-separated segments, each a literal or a parameter ':name', matched  *)
(* as path-to-regexp's match(pattern, {decode: decodeURIComponent}) does   *)
(* it: literals without regard to case, one trailing delimiter optional,   *)
(* a parameter taking one non-empty segment, which is then decoded.        *)
(***************************************************************************)
UpperChar(c) ==
  IF c \in Range(LowerChars)
  THEN UpperChars[CHOOSE i \in 1..26 : LowerChars[i] = c]
  ELSE c

\* String.prototype.toUpperCase
toUpperCase(s) == [i \in 1..Len(s) |-> UpperChar(s[i])]

hexVal(c) ==
  IF IsDigit(c) THEN DigitVal(c)
  ELSE 9 + (CHOOSE i \in 1..6 : LowerChars[i] = LowerChar(c))

\* String.fromCharCode for the printable characters
fromCharCode(code) ==
  IF code <= 95 THEN AsciiChars[code - 31] ELSE AsciiLowerChars[code - 96]

\* decodeURIComponent throws a URIError for a '%' that is not followed by
\* two hexadecimal digits and for a byte of 0x80 and above that starts no
\* complete UTF-8 sequence (the escapes of the universe are single bytes)
RECURSIVE decodeURIComponent_throws(_)
decodeURIComponent_throws(s) ==
  IF Len(s) = 0 THEN FALSE
  ELSE IF s[1] # "%" THEN decodeURIComponent_throws(Tail(s))
  ELSE IF Len(s) < 3 THEN TRUE
  ELSE IF ~IsHex(s[2]) \/ ~IsHex(s[3]) THEN TRUE
  ELSE IF hexVal(s[2]) >= 8 THEN TRUE
  ELSE decodeURIComponent_throws(SubSeq(s, 4, Len(s)))

RECURSIVE decodeURIComponent(_)
decodeURIComponent(s) ==
  IF Len(s) = 0 THEN << >>
  ELSE IF s[1] # "%" THEN <<s[1]>> \o decodeURIComponent(Tail(s))
  ELSE <<fromCharCode(16 * hexVal(s[2]) + hexVal(s[3]))>>
         \o decodeURIComponent(SubSeq(s, 4, Len(s)))

\* s.split(separator) for a separator of one character
RECURSIVE split(_, _)
split(s, separator) ==
  IF \A i \in 1..Len(s) : s[i] # separator THEN <<s>>
  ELSE LET first == CHOOSE i \in 1..Len(s) :
                      s[i] = separator /\ \A j \in 1..(i - 1) : s[j] # separator
       IN <<SubSeq(s, 1, first - 1)>> \o split(SubSeq(s, first + 1, Len(s)), separator)

isParameter(segment) == Len(segment) > 1 /\ segment[1] = ":"

\* the regular expression of the pattern applied to the path
regexpMatches(pattern, path) ==
  LET stripped == IF Len(path) > 1 /\ path[Len(path)] \in {"/", "#", "?"}
                  THEN SubSeq(path, 1, Len(path) - 1) ELSE path
      patternSegments == split(pattern, "/")
      pathSegments == split(stripped, "/")
  IN /\ Len(patternSegments) = Len(pathSegments)
     /\ \A i \in 1..Len(patternSegments) :
          IF isParameter(patternSegments[i])
          THEN /\ Len(pathSegments[i]) > 0
               /\ \A k \in 1..Len(pathSegments[i]) : pathSegments[i][k] \notin {"#", "?"}
          ELSE toLowerCase(patternSegments[i]) = toLowerCase(pathSegments[i])

\* the segments of the path that the parameters of the pattern take
capturedSegments(pattern, path) ==
  LET stripped == IF Len(path) > 1 /\ path[Len(path)] \in {"/", "#", "?"}
                  THEN SubSeq(path, 1, Len(path) - 1) ELSE path
      patternSegments == split(pattern, "/")
      pathSegments == split(stripped, "/")
      positions == SelectSeq([i \in 1..Len(patternSegments) |-> i],
                             LAMBDA i : isParameter(patternSegments[i]))
  IN [names |-> [k \in 1..Len(positions) |-> Tail(patternSegments[positions[k]])],
      values |-> [k \in 1..Len(positions) |-> pathSegments[positions[k]]]]

\* route.match(path) throws when a captured segment cannot be decoded
match_throws(pattern, path) ==
  /\ regexpMatches(pattern, path)
  /\ \E k \in 1..Len(capturedSegments(pattern, path).values) :
       decodeURIComponent_throws(capturedSegments(pattern, path).values[k])

\* route.match(path): false, or { params }
match(pattern, path) ==
  IF ~regexpMatches(pattern, path) THEN [matched |-> FALSE, params |-> Undefined]
  ELSE LET captured == capturedSegments(pattern, path)
       IN [matched |-> TRUE,
           params |-> Obj(captured.names,
                          [k \in 1..Len(captured.values) |->
                             Str(decodeURIComponent(captured.values[k]))])]

sStar == <<"*">>
JsonHeaders == Headers(<<sContentType>>, <<<<"a", "p", "p", "l", "i", "c", "a", "t", "i", "o", "n", "/", "j", "s", "o", "n">>>>)

\* an entry of routeTemplates
Route(pattern, template, method, statusCode, headers) ==
  [pattern |-> pattern, template |-> template, method |-> method,
   statusCode |-> statusCode, headers |-> headers]

\* the options of registerTemplate; a method of << >> and a statusCode of 0
\* stand for options without the property
RouteOptions(method, statusCode) == [method |-> method, statusCode |-> statusCode]

\* registerTemplate(routePattern, template, options)
registerTemplate(routes, routePattern, template, routeOptions) ==
  Append(routes,
         Route(routePattern, template,
               IF Len(routeOptions.method) > 0 THEN routeOptions.method ELSE sStar,
               IF routeOptions.statusCode # 0 THEN routeOptions.statusCode ELSE 200,
               JsonHeaders))

\* a request handed to the resolver; params is undefined until a template
\* is resolved for it
ResolverRequest(method, path, params) == [method |-> method, path |-> path, params |-> params]

Found(kind, index, route, params) ==
  [kind |-> kind, index |-> index, route |-> route, params |-> params]
NoRoute == Route(<< >>, Undefined, << >>, 0, Headers(<< >>, << >>))
FoundNull == Found("null", 0, NoRoute, Undefined)
FoundThrew == Found("threw", 0, NoRoute, Undefined)

\* the loop over routeTemplates, from position i on
RECURSIVE scanRoutes(_, _, _)
scanRoutes(routes, request, i) ==
  IF i > Len(routes) THEN FoundNull
  ELSE LET route == routes[i]
       IN IF route.method # sStar
               /\ toUpperCase(route.method) # toUpperCase(request.method)
          THEN scanRoutes(routes, request, i + 1)
          ELSE IF match_throws(route.pattern, request.path) THEN FoundThrew
          ELSE IF ~match(route.pattern, request.path).matched
          THEN scanRoutes(routes, request, i + 1)
          ELSE Found("route", i, route, match(route.pattern, request.path).params)

\* findMatchingTemplate of part_002: the scan, without a cache
findMatchingTemplateUncached(routes, request) == scanRoutes(routes, request, 1)

\* `${request.method.toUpperCase()}-${request.path}`
fastCacheKey(request) == toUpperCase(request.method) \o <<"-">> \o request.path

cacheHas(cache, key) == \E entry \in cache : entry.key = key
cacheGet(cache, key) == (CHOOSE entry \in cache : entry.key = key).value
cacheSet(cache, key, value) ==
  {entry \in cache : entry.key # key} \cup {[key |-> key, value |-> value]}

\* findMatchingTemplate of part_000: what it returns, and the resolver after
findMatchingTemplate(resolver, request) ==
  IF cacheHas(resolver.templateCache, fastCacheKey(request))
  THEN [found |-> cacheGet(resolver.templateCache, fastCacheKey(request)),
        resolver |-> [resolver EXCEPT !.cacheHits = @ + 1]]
  ELSE LET found == scanRoutes(resolver.routeTemplates, request, 1)
       IN [found |-> found,
           resolver |->
             [resolver EXCEPT
                !.cacheMisses = @ + 1,
                !.templateCache =
                   IF found.kind = "threw" THEN @
                   ELSE cacheSet(@, fastCacheKey(request), found)]]

\* the resolver after construction
NewResolver ==
  [routeTemplates |-> << >>, templateCache |-> {}, cacheHits |-> 0, cacheMisses |-> 0,
   templateRenders |-> 0]

\* clearCaches()
clearCaches(resolver) == [resolver EXCEPT !.templateCache = {}]

(***************************************************************************)
(* Response templates (part_000, part_002).  Handlebars is applied to      *)
(* texts whose expressions are paths into the context ({{a.b.c}}); the     *)
(* helpers that draw random values are not part of the templates checked.  *)
(***************************************************************************)
\* the position of the first occurrence of sub in s, 0 when there is none
indexOf(s, sub) ==
  IF includes(s, sub)
  THEN CHOOSE i \in 1..(Len(s) - Len(sub) + 1) :
         /\ SubSeq(s, i, i + Len(sub) - 1) = sub
         /\ \A j \in 1..(i - 1) : SubSeq(s, j, j + Len(sub) - 1) # sub
  ELSE 0

sOpen == <<"{", "{">>
sClose == <<"}", "}">>

\* context.a.b.c, undefined when a step is missing
RECURSIVE lookupPath(_, _)
lookupPath(value, names) ==
  IF Len(names) = 0 THEN value
  ELSE IF value.t # "object" THEN Undefined
  ELSE lookupPath(Get(value, Head(names)), Tail(names))

\* Handlebars.escapeExpression of the text of a value
RECURSIVE escapeChars(_)
escapeChars(s) ==
  IF Len(s) = 0 THEN << >>
  ELSE (IF s[1] = "&" THEN <<"&", "a", "m", "p", ";">>
        ELSE IF s[1] = "<" THEN <<"&", "l", "t", ";">>
        ELSE IF s[1] = ">" THEN <<"&", "g", "t", ";">>
        ELSE IF s[1] = "\"" THEN <<"&", "q", "u", "o", "t", ";">>
        ELSE IF s[1] = "'" THEN <<"&", "#", "x", "2", "7", ";">>
        ELSE IF s[1] = "=" THEN <<"&", "#", "x", "3", "D", ";">>
        ELSE <<s[1]>>) \o escapeChars(Tail(s))

escapeExpression(value) ==
  IF value.t \in {"undefined", "null"} THEN << >>
  ELSE IF value.t \in {"object", "array"} THEN escapeChars(stringify(value))
  ELSE escapeChars(String(value))

\* the compiled template throws a parse error for a '{{' that is not closed
RECURSIVE handlebars_throws(_)
handlebars_throws(text) ==
  IF indexOf(text, sOpen) = 0 THEN FALSE
  ELSE LET rest == SubSeq(text, indexOf(text, sOpen) + 2, Len(text))
       IN IF indexOf(rest, sClose) = 0 THEN TRUE
          ELSE handlebars_throws(SubSeq(rest, indexOf(rest, sClose) + 2, Len(rest)))

\* compile(text)(context)
RECURSIVE handlebars(_, _)
handlebars(text, context) ==
  IF indexOf(text, sOpen) = 0 THEN text
  ELSE LET open == indexOf(text, sOpen)
           rest == SubSeq(text, open + 2, Len(text))
           close == indexOf(rest, sClose)
       IN SubSeq(text, 1, open - 1)
            \o escapeExpression(lookupPath(context, split(SubSeq(rest, 1, close - 1), ".")))
            \o handlebars(SubSeq(rest, close + 2, Len(rest)), context)

\* the function compileObjectTemplate(obj) returns, applied to the context;
\* Object.entries of an array are its indices and elements, and the result
\* is built as an object
RECURSIVE compileObjectTemplate(_, _)
compileObjectTemplate(obj, context) ==
  LET keys == IF obj.t = "array"
              THEN [i \in 1..Len(obj.vals) |-> indexToString(i - 1)]
              ELSE ObjectKeys(obj)
      valueOf(i) == IF obj.t = "array" THEN obj.vals[i] ELSE Get(obj, keys[i])
  IN Obj(keys,
         [i \in 1..Len(keys) |->
            IF valueOf(i).t = "string" /\ includes(valueOf(i).s, sOpen)
            THEN Str(handlebars(valueOf(i).s, context))
            ELSE IF valueOf(i).t \in {"object", "array"}
            THEN compileObjectTemplate(valueOf(i), context)
            ELSE valueOf(i)])

RECURSIVE compileObjectTemplate_throws(_)
compileObjectTemplate_throws(obj) ==
  \E i \in 1..Len(obj.vals) :
    \/ obj.vals[i].t = "string" /\ handlebars_throws(obj.vals[i].s)
    \/ obj.vals[i].t \in {"object", "array"} /\ compileObjectTemplate_throws(obj.vals[i])

\* render(context) throws: a template that is neither a string nor an
\* object, Object.entries(null), or a text that does not parse
render_throws(template) ==
  IF template.t = "string" THEN handlebars_throws(template.s)
  ELSE IF template.t \in {"object", "array"} THEN compileObjectTemplate_throws(template)
  ELSE TRUE

\* render(context), compiling the template first
render(template, context) ==
  IF template.t = "string" THEN Str(handlebars(template.s, context))
  ELSE compileObjectTemplate(template, context)

sRequest == <<"r", "e", "q", "u", "e", "s", "t">>
sParams == <<"p", "a", "r", "a", "m", "s">>
sTimestamp == <<"t", "i", "m", "e", "s", "t", "a", "m", "p">>

\* buildContext(request) with the default context builder
buildContext(request, now) ==
  Obj(<<sRequest, sTimestamp>>,
      <<Obj(<<sMethod, sPath, sParams>>,
            <<Str(request.method), Str(request.path),
              IF truthy(request.params) THEN request.params ELSE Obj(<< >>, << >>)>>),
        Num(0, now)>>)

(***************************************************************************)
(* The verifier with templates (EnhancedSnapshotVerifier): replayRequest   *)
(* of part_000 over the resolver, the session filter of                    *)
(* cli_json_exporter.js, and the replay loop of part_004 around them.      *)
(***************************************************************************)
\* resolveResponse(request) after its call of findMatchingTemplate, lookup
\* being what that call returned and the resolver it left
resolveRoute(lookup, request, now) ==
  LET matchingRoute == lookup.found
      withParams == [request EXCEPT !.params = matchingRoute.params]
  IN IF matchingRoute.kind = "threw"
     THEN [threw |-> TRUE, resolved |-> FALSE, response |-> UndefinedResponse,
           resolver |-> lookup.resolver, request |-> request]
     ELSE IF matchingRoute.kind = "null"
     THEN [threw |-> FALSE, resolved |-> FALSE, response |-> UndefinedResponse,
           resolver |-> lookup.resolver, request |-> request]
     ELSE [threw |-> render_throws(matchingRoute.route.template),
           resolved |-> ~render_throws(matchingRoute.route.template),
           response |->
             IF render_throws(matchingRoute.route.template) THEN UndefinedResponse
             ELSE Response(matchingRoute.route.statusCode, matchingRoute.route.headers,
                           render(matchingRoute.route.template,
                                  buildContext(withParams, now))),
           resolver |-> [lookup.resolver EXCEPT !.templateRenders = @ + 1],
           request |-> withParams]

\* resolveResponse(request): the response or null, whether it threw, the
\* resolver and the request object afterwards
resolveResponse(resolver, request, now) ==
  resolveRoute(findMatchingTemplate(resolver, request), request, now)

\* the branch of replayRequest taken when useDynamicResponses is set,
\* resolution being what resolveResponse returned
replayResolved(resolution, liveResponse) ==
  [source |-> IF resolution.threw THEN "threw"
              ELSE IF resolution.resolved THEN "template" ELSE "live",
   response |-> IF resolution.threw THEN UndefinedResponse
                ELSE IF resolution.resolved THEN resolution.response
                ELSE liveResponse,
   resolver |-> resolution.resolver,
   request |-> resolution.request]

\* replayRequest(request, targetBaseUrl) of the verifier with templates,
\* liveResponse being the answer of the replayRequest it overrides
replayRequest(useDynamicResponses, resolver, request, liveResponse, now) ==
  IF useDynamicResponses
  THEN replayResolved(resolveResponse(resolver, request, now), liveResponse)
  ELSE [source |-> "live", response |-> liveResponse,
        resolver |-> resolver, request |-> request]

\* this.filter: none, or a filter on the methods
Filter(methods, routes, tags, sessionTags) ==
  [set |-> TRUE, methods |-> methods, routes |-> routes, tags |-> tags,
   sessionTags |-> sessionTags]
NoFilter ==
  [set |-> FALSE, methods |-> << >>, routes |-> << >>, tags |-> << >>,
   sessionTags |-> << >>]
MethodFilter(methods) == Filter(methods, << >>, << >>, << >>)

\* new RegExp('^' + routePattern.replace(/\//g, '\\/').replace(/\*/g, '.*') + '$')
\*   .test(path): a slash stands for itself, a star for any run of
\* characters, and every other character keeps the meaning it has in a
\* regular expression: a dot stands for any one character, a letter for
\* itself
RECURSIVE routeRegexpTest(_, _)
routeRegexpTest(routePattern, path) ==
  IF Len(routePattern) = 0 THEN Len(path) = 0
  ELSE IF Head(routePattern) = "*"
  THEN \E k \in 0..Len(path) :
         routeRegexpTest(Tail(routePattern), SubSeq(path, k + 1, Len(path)))
  ELSE /\ Len(path) > 0
       /\ (Head(routePattern) = "." \/ Head(routePattern) = Head(path))
       /\ routeRegexpTest(Tail(routePattern), Tail(path))

\* the callback of filter.routes.some
routeMatches(routePattern, path) ==
  IF startsWith(routePattern, <<"/">>) /\ includes(routePattern, <<"*">>)
  THEN routeRegexpTest(routePattern, path)
  ELSE includes(path, routePattern)

\* matchesFilter(interaction), called by filterSession with a filter set
matchesFilter(filter, interaction) ==
  /\ \/ Len(filter.methods) = 0
     \/ \E i \in 1..Len(filter.methods) :
          toUpperCase(interaction.request.method) = toUpperCase(filter.methods[i])
  /\ \/ Len(filter.routes) = 0
     \/ \E i \in 1..Len(filter.routes) :
          routeMatches(filter.routes[i], interaction.request.path)
  /\ \/ Len(filter.tags) = 0
     \/ /\ "tags" \in DOMAIN interaction
        /\ Len(interaction.tags) > 0
        /\ \E i \in 1..Len(filter.tags) : filter.tags[i] \in Range(interaction.tags)

\* filterSession(session): the positions of the interactions it keeps; the
\* interaction objects of the filtered session are those of the session.
\* sessionTags is session.metadata?.tags || []
filterSession(filter, sessionTags, interactions) ==
  IF ~filter.set THEN [i \in 1..Len(interactions) |-> i]
  ELSE IF /\ Len(filter.sessionTags) > 0
          /\ ~\E i \in 1..Len(filter.sessionTags) :
                filter.sessionTags[i] \in Range(sessionTags)
  THEN << >>
  ELSE SelectSeq([i \in 1..Len(interactions) |-> i],
                 LAMBDA i : matchesFilter(filter, interactions[i]))

\* the loop of replayAgainstContract over the interactions at the given
\* positions, lives[i] being the answer of the target to interaction i
\* one turn of the loop of replayAgainstContract, replayed being what
\* replayRequest returned for interaction i
replayTurn(opts, state, i, replayed) ==
  [resolver |-> replayed.resolver,
   interactions |-> [state.interactions EXCEPT ![i].request = replayed.request],
   totalRequests |-> state.totalRequests + 1,
   now |-> state.now + 1,
   results |->
     IF replayed.source = "threw"
     THEN [state.results EXCEPT
             !.interactionResults =
                @ \o <<InteractionError(state.interactions[i].request, "Error", state.now)>>,
             !.summary.total = @ + 1,
             !.summary.errors = @ + 1]
     ELSE replayInteraction(opts, state.results, state.interactions[i],
                            replayed.response, state.now)]

RECURSIVE replayLoop(_, _, _, _, _)
replayLoop(opts, useDynamicResponses, state, positions, lives) ==
  IF Len(positions) = 0 THEN state
  ELSE replayLoop(opts, useDynamicResponses,
         replayTurn(opts, state, Head(positions),
                    replayRequest(useDynamicResponses, state.resolver,
                                  state.interactions[Head(positions)].request,
                                  lives[Head(positions)], state.now)),
         Tail(positions), lives)

\* the end of replayAgainstContract: the end time, the score and the summary
\* of the verifier with tolerances
finishLoop(state) ==
  [state EXCEPT
     !.results = updateVerificationSummary(finishReplay(state.results, state.now))]

\* replayAgainstContract(sessionId, targetBaseUrl) of the verifier with
\* templates: the verifier's state afterwards, with the results it stores
replayWithFilter(opts, useDynamicResponses, filter, resolver, interactions, totalRequests, lives) ==
  finishLoop(replayLoop(opts, useDynamicResponses,
                        [resolver |-> resolver, interactions |-> interactions,
                         totalRequests |-> totalRequests, now |-> 1,
                         results |-> NewResults("s1", 0)],
                        filterSession(filter, << >>, interactions), lives))

(***************************************************************************)
(* The verifier with templates as a state machine: routes are registered,  *)
(* the cache is cleared, requests are looked up and replayed, and the      *)
(* stored session is replayed with and without templates and filter.       *)
(***************************************************************************)
MaxRoutes == 2
MaxLookups == 2
MaxRequests == 2

sUsersId == <<"/", "u", "s", "e", "r", "s", "/", ":", "i", "d">>
sUsersMe == <<"/", "u", "s", "e", "r", "s", "/", "m", "e">>
sUsersMeUpper == <<"/", "U", "S", "E", "R", "S", "/", "m", "e">>
sUsers1 == <<"/", "u", "s", "e", "r", "s", "/", "1">>
sUsersEscaped == <<"/", "u", "s", "e", "r", "s", "/", "%", "4", "1">>
sUsersMalformed == <<"/", "u", "s", "e", "r", "s", "/", "%", "E", "0">>
sItemsPath == <<"/", "i", "t", "e", "m", "s">>
sGetLower == <<"g", "e", "t">>
sPostLower == <<"p", "o", "s", "t">>
sIdTemplate == <<"{", "{", "r", "e", "q", "u", "e", "s", "t", ".", "p", "a", "r", "a", "m", "s", ".", "i", "d", "}", "}">>

\* the routes registered: a pattern, its template and its options
RegisteredRoutes ==
  { [pattern |-> sUsersId, template |-> Obj1(sId, Str(sIdTemplate)),
     options |-> RouteOptions(<< >>, 0)],
    [pattern |-> sUsersMe, template |-> Obj1(sName, Str(sA)),
     options |-> RouteOptions(sPostLower, 0)] }

ResolverRequests ==
  { ResolverRequest(sGet, sUsers1, Undefined),
    ResolverRequest(sPost, sUsersMeUpper, Undefined),
    ResolverRequest(sGet, sUsersMalformed, Undefined),
    ResolverRequest(sGet, sUsersMe, Undefined) }

LiveResponses ==
  {Response(200, HeadersLater, Obj1(sName, Str(sA))),
   Response(200, HeadersLater, Obj1(sId, Str(<<"1">>)))}

\* the sessions loaded before the replay
StoredInteraction(method, path, body) ==
  [request |-> ResolverRequest(method, path, Undefined),
   response |-> Response(200, HeadersPlain, body)]

StoredSessions ==
  {    <<StoredInteraction(sGet, sUsers1, Obj1(sName, Str(sA))),
      StoredInteraction(sPost, sItemsPath, Obj1(sName, Str(sA)))>> }

EnhancedOptions == Options(<< >>, ExampleTolerances)

NotFound == [called |-> FALSE, request |-> ResolverRequest(<< >>, << >>, Undefined),
             found |-> FoundNull]
NotReplayedWithTemplates ==
  [called |-> FALSE, threw |-> FALSE, before |-> FALSE, during |-> FALSE]
NotReplayedRequest ==
  [called |-> FALSE, request |-> ResolverRequest(<< >>, << >>, Undefined),
   source |-> "none", response |-> UndefinedResponse]

\* lastFound and lastReplay hold what the last call returned to its caller
VARIABLES
  useDynamicResponses,  \* this.options.useDynamicResponses
  responseResolver,     \* this.responseResolver
  storedSession,        \* the interactions of the session in originalSessions
  sessionFilter,        \* this.filter
  storedResults,        \* the results in replayResults
  totalRequests,        \* this.metrics.totalRequests
  lastFound,            \* the last findMatchingTemplate call and its result
  lastReplay,           \* the last replayRequest call and its result
  templatesReplay       \* the last replayWithTemplates call: the flag before
                        \* it and during its replay, and whether it threw

varsEnhanced == <<useDynamicResponses, responseResolver, storedSession, sessionFilter,
                  storedResults, totalRequests, lastFound, lastReplay, templatesReplay>>

IdleEnhanced ==
  /\ useDynamicResponses = FALSE
  /\ responseResolver = NewResolver
  /\ storedSession = << >>
  /\ sessionFilter = NoFilter
  /\ storedResults = NoResults
  /\ totalRequests = 0
  /\ lastFound = NotFound
  /\ lastReplay = NotReplayedRequest
  /\ templatesReplay = NotReplayedWithTemplates

InitEnhanced ==
  /\ useDynamicResponses \in BOOLEAN
  /\ responseResolver = NewResolver
  /\ storedSession \in StoredSessions
  /\ sessionFilter \in {NoFilter, MethodFilter(<<sGetLower>>)}
  /\ storedResults = NoResults
  /\ totalRequests = 0
  /\ lastFound = NotFound
  /\ lastReplay = NotReplayedRequest
  /\ templatesReplay = NotReplayedWithTemplates

lookups == responseResolver.cacheHits + responseResolver.cacheMisses

\* registerTemplate(routePattern, template, options)
RegisterTemplate(routePattern, template, routeOptions) ==
  /\ Len(responseResolver.routeTemplates) < MaxRoutes
  /\ responseResolver' =
       [responseResolver EXCEPT
          !.routeTemplates = registerTemplate(@, routePattern, template, routeOptions)]
  /\ UNCHANGED <<useDynamicResponses, storedSession, sessionFilter, storedResults,
                 totalRequests, lastFound, lastReplay, templatesReplay>>

\* responseResolver.clearCaches()
ClearCaches ==
  /\ responseResolver' = clearCaches(responseResolver)
  /\ UNCHANGED <<useDynamicResponses, storedSession, sessionFilter, storedResults,
                 totalRequests, lastFound, lastReplay, templatesReplay>>

\* responseResolver.findMatchingTemplate(request)
FindMatchingTemplate(request) ==
  /\ lookups < MaxLookups
  /\ \E lookup \in {findMatchingTemplate(responseResolver, request)} :
       /\ responseResolver' = lookup.resolver
       /\ lastFound' = [called |-> TRUE, request |-> request, found |-> lookup.found]
  /\ lastReplay' = NotReplayedRequest
  /\ UNCHANGED <<useDynamicResponses, storedSession, sessionFilter, storedResults,
                 totalRequests, templatesReplay>>

\* replayRequest(request, targetBaseUrl) for a request of the caller
ReplayRequest(request, liveResponse) ==
  /\ totalRequests < MaxRequests
  /\ lookups < MaxLookups
  /\ \E replayed \in {replayRequest(useDynamicResponses, responseResolver, request,
                                     liveResponse, totalRequests)} :
        /\ responseResolver' = replayed.resolver
        /\ lastReplay' = [called |-> TRUE, request |-> request,
                          source |-> replayed.source, response |-> replayed.response]
  /\ totalRequests' = totalRequests + 1
  /\ lastFound' = NotFound
  /\ UNCHANGED <<useDynamicResponses, storedSession, sessionFilter, storedResults,
                 templatesReplay>>

\* replayAgainstContract(sessionId, targetBaseUrl)
ReplayAgainstContract(lives) ==
  /\ ~storedResults.stored
  /\ \E state \in {replayWithFilter(EnhancedOptions, useDynamicResponses, sessionFilter,
                                     responseResolver, storedSession, totalRequests, lives)} :
        /\ responseResolver' = state.resolver
        /\ storedSession' = state.interactions
        /\ totalRequests' = state.totalRequests
        /\ storedResults' = [stored |-> TRUE, results |-> state.results]
  /\ UNCHANGED <<useDynamicResponses, sessionFilter, lastFound, lastReplay,
                 templatesReplay>>

\* replayWithTemplates leaving the flag set
dynamicResponsesLeftOn(prevUseDynamicResponses) ==
  [during |-> TRUE, after |-> TRUE]

\* replayWithTemplates: const prevUseDynamicResponses = the flag; the flag is
\* set for the replay in the try block and put back in the finally block
dynamicResponsesForTemplates(prevUseDynamicResponses) ==
  [during |-> TRUE, after |-> prevUseDynamicResponses]

\* replayWithTemplates(sessionId, {}, options): loaded says whether
\* originalSessions has the session id; without it replayAgainstContract
\* throws 'Session not found' and the finally block still runs
ReplayWithTemplates(loaded, lives) ==
  /\ ~storedResults.stored
  /\ \E flag \in {dynamicResponsesForTemplates(useDynamicResponses)} :
       /\ templatesReplay' = [called |-> TRUE, threw |-> ~loaded,
                              before |-> useDynamicResponses, during |-> flag.during]
       /\ useDynamicResponses' = flag.after
       /\ IF loaded
          THEN \E state \in {replayWithFilter(EnhancedOptions, flag.during, sessionFilter,
                                              responseResolver, storedSession,
                                              totalRequests, lives)} :
                 /\ responseResolver' = state.resolver
                 /\ storedSession' = state.interactions
                 /\ totalRequests' = state.totalRequests
                 /\ storedResults' = [stored |-> TRUE, results |-> state.results]
          ELSE UNCHANGED <<responseResolver, storedSession, totalRequests, storedResults>>
  /\ UNCHANGED <<sessionFilter, lastFound, lastReplay>>

LiveAnswers == {[i \in 1..2 |-> liveResponse] : liveResponse \in LiveResponses}

(***************************************************************************)
(* A response template rendered once: new ResponseTemplate(template) and   *)
(* render(context).                                                        *)
(***************************************************************************)
sUnclosed == <<"{", "{", "a">>
sAmpersand == <<"a", "&", "b">>

Templates ==
  { Str(sA), Str(<< >>), Str(sAmpersand), Str(sIdTemplate), Str(sUnclosed),
    Obj1(sName, Str(sA)),
    Obj1(sId, Str(sIdTemplate)),
    Obj(<<sName, sData>>, <<Str(sA), Obj1(sId, Num(0, 1))>>),
    Obj(<<sB, sA>>, <<Bool(TRUE), Num(0, 2)>>),
    Obj1(sData, Null),
    Obj1(sItems, Arr(<<Num(0, 1), Num(0, 2)>>)),
    Obj1(sItems, Arr(<< >>)),
    Obj1(sData, Obj1(sItems, Arr(<<Str(sA)>>))),
    Obj1(sItems, Arr(<<Str(sIdTemplate)>>)) }

Contexts ==
  { Obj(<< >>, << >>),
    Obj1(sName, Str(<<"<">>)),
    buildContext(ResolverRequest(sGet, sUsers1, Undefined), 1),
    buildContext(ResolverRequest(sGet, sUsers1, Obj1(sId, Str(<<"1">>))), 2) }

NotRendered == [called |-> FALSE, threw |-> FALSE, value |-> Undefined]

VARIABLES
  originalTemplate,  \* this.originalTemplate
  renderContext,     \* the context handed to render
  rendered           \* what render returned, or that it threw

varsTemplate == <<originalTemplate, renderContext, rendered>>

IdleTemplate ==
  /\ originalTemplate = Null
  /\ renderContext = Null
  /\ rendered = NotRendered

InitTemplate ==
  /\ originalTemplate \in Templates
  /\ renderContext \in Contexts
  /\ rendered = NotRendered

\* template.render(context)
Render ==
  /\ ~rendered.called
  /\ rendered' = [called |-> TRUE,
                  threw |-> render_throws(originalTemplate),
                  value |-> IF render_throws(originalTemplate) THEN Undefined
                            ELSE render(originalTemplate, renderContext)]
  /\ UNCHANGED <<originalTemplate, renderContext>>

(***************************************************************************)
(* The replay command (part_000): the flags and the configuration, the     *)
(* verification of the session and the exit code of the process.  The      *)
(* exchanges of a run are the interactions of the session file with the    *)
(* response replayRequest returns for each (from a template or the target).*)
(***************************************************************************)
\* what verifyCompatibility returns, res being the results of
\* replayAgainstContract
verifyCompatibility(res) ==
  [sessionId |-> res.sessionId,
   compatibilityScore |-> res.summary.compatibilityScore,
   meetsThreshold |-> ScoreLeq(Score(1, 1), res.summary.compatibilityScore),
   threshold |-> 100]

\* verifyCompatibility returning the results of the replay themselves
verifyCompatibilityWithSummary(res) == res

\* the options object the command builds for the verifier
cliVerifierOptions(flags, config) ==
  Options(config.ignoreFields,
          IF flags.strict THEN CliStrictTolerances ELSE CliDefaultTolerances)

\* the results the command works with
cliVerification(flags, config, exchanges) ==
  IF flags.dynamic
  THEN replayAgainstContract(cliVerifierOptions(flags, config), exchanges)
  ELSE verifyCompatibility(replayAgainstContract(cliVerifierOptions(flags, config),
                                                 exchanges))

\* the check at the end of the command without the branch of --strict
cliExitCodeWithoutStrict(flags, res) ==
  IF "summary" \notin DOMAIN res THEN 1
  ELSE IF /\ flags.failOnThreshold
          /\ ~ScoreLeq(Score(flags.threshold, 100),
                       IF res.summary.effectiveCompatibilityScore.num # 0
                       THEN res.summary.effectiveCompatibilityScore
                       ELSE res.summary.compatibilityScore)
  THEN 1
  ELSE 0

\* the exit code of the command: reading results.summary of a result that
\* has none throws, and the catch block exits with 1
cliExitCode(flags, res) ==
  IF "summary" \notin DOMAIN res THEN 1
  ELSE IF /\ flags.strict
          /\ \/ res.summary.totalChanges > 0
             \/ res.summary.incompatible > 0
             \/ res.summary.errors > 0
  THEN 1
  ELSE cliExitCodeWithoutStrict(flags, res)

CliExchanges ==
  { Exchange(Obj1(sName, Str(sA)), 200, Obj1(sName, Str(sA))),
    Exchange(Obj1(sCreatedAt, Str(sIso)), 200, Obj1(sCreatedAt, Str(sIsoPlus2))),
    Exchange(Obj(<<sId, sName>>, <<nOne, Str(sA)>>), 200,
             Obj(<<sId, sName>>, <<nOne, Str(sB)>>)) }

CliSessions ==
  {<<exchange>> : exchange \in CliExchanges}
    \cup {<<first, second>> : first \in CliExchanges, second \in CliExchanges}

CliFlags ==
  [strict : BOOLEAN, dynamic : BOOLEAN, failOnThreshold : BOOLEAN, threshold : {100}]

CliConfigs ==
  {[ignoreFields |-> ignoreFields] :
     ignoreFields \in {<< >>, <<IgnoreString(sCreatedAt)>>}}

NotRun == [sessionId |-> ""]

VARIABLES
  cliFlags,     \* options of the command
  cliConfig,    \* config, from the defaults and the file of --config
  cliExchanges, \* the session file and the responses of the run
  cliResults,   \* results
  exited,       \* the process has ended
  exitCode      \* the exit code of the process, once it has ended

varsCli == <<cliFlags, cliConfig, cliExchanges, cliResults, exited, exitCode>>

IdleCli ==
  /\ cliFlags = [strict |-> FALSE, dynamic |-> TRUE, failOnThreshold |-> FALSE,
                 threshold |-> 100]
  /\ cliConfig = [ignoreFields |-> << >>]
  /\ cliExchanges = << >>
  /\ cliResults = NotRun
  /\ exited = FALSE
  /\ exitCode = 0

InitCli ==
  /\ cliFlags \in CliFlags
  /\ cliConfig \in CliConfigs
  /\ cliExchanges \in CliSessions
  /\ cliResults = NotRun
  /\ exited = FALSE
  /\ exitCode = 0

\* the action of the replay command
ReplayCommand ==
  /\ ~exited
  /\ exited' = TRUE
  /\ \E res \in {cliVerification(cliFlags, cliConfig, cliExchanges)} :
       /\ cliResults' = res
       /\ exitCode' = cliExitCode(cliFlags, res)
  /\ UNCHANGED <<cliFlags, cliConfig, cliExchanges>>

(***************************************************************************)
(* Two values of one field compared by areValuesEquivalent, under          *)
(* tolerances that hold the default lists and a drift.                     *)
(***************************************************************************)
sIsoEpoch == <<"1", "9", "7", "0", "-", "0", "1", "-", "0", "1", "T", "0", "0", ":", "0", "0", ":", "0", "0", "Z">>
sIsoEpochPlus1 == <<"1", "9", "7", "0", "-", "0", "1", "-", "0", "1", "T", "0", "0", ":", "0", "0", ":", "0", "1", "Z">>

\* 2023-01-01T12:00:02Z in seconds
nIsoSecondsPlus2 == Num(1672574, 402)

TimestampValues ==
  { Str(sIso), Str(sIsoMillis), Str(sIsoPlus2), Str(sIsoEpoch), Str(sIsoEpochPlus1),
    Num(0, 0), nOne, nIsoSeconds, nIsoSecondsPlus2, nIsoMillis }

Drifts == {0, 2, 5}

DriftTolerances(drift) ==
  Tolerances(AllToleranceFields, drift, TRUE, TRUE, ArrayFieldNames,
             TimestampFieldNames, UuidFieldNames)

ValuesNotCompared == [called |-> FALSE, equivalent |-> FALSE]

VARIABLES
  tsDrift,     \* this.options.tolerances.timestampDriftSeconds
  tsPath,      \* the path of the field
  tsOriginal,  \* the recorded value
  tsReplayed,  \* the replayed value
  tsCompared   \* what areValuesEquivalent returned

varsTimestamps == <<tsDrift, tsPath, tsOriginal, tsReplayed, tsCompared>>

IdleTimestamps ==
  /\ tsDrift = 0
  /\ tsPath = << >>
  /\ tsOriginal = Null
  /\ tsReplayed = Null
  /\ tsCompared = ValuesNotCompared

InitTimestamps ==
  /\ tsDrift \in Drifts
  /\ tsPath \in {sCreatedAt, sName}
  /\ tsOriginal \in TimestampValues
  /\ tsReplayed \in TimestampValues
  /\ tsCompared = ValuesNotCompared

\* areValuesEquivalent(path, original, replayed)
CompareValues ==
  /\ ~tsCompared.called
  /\ tsCompared' =
       [called |-> TRUE,
        equivalent |-> areValuesEquivalent(Options(<< >>, DriftTolerances(tsDrift)),
                                           tsPath, tsOriginal, tsReplayed)]
  /\ UNCHANGED <<tsDrift, tsPath, tsOriginal, tsReplayed>>

(***************************************************************************)
(* Context builders (part_002).  A builder is the default builder of the   *)
(* constructor, a function returning a fixed value, a function reading the *)
(* path of the request, or a function that throws.                         *)
(***************************************************************************)
\* { ...target, ...source }: the own properties of an object are copied, a
\* value that is no object (undefined, null, a number) adds nothing
RECURSIVE spreadKeys(_, _, _)
spreadKeys(target, source, keys) ==
  IF Len(keys) = 0 THEN target
  ELSE spreadKeys(
         IF HasKey(target, Head(keys))
         THEN Obj(target.keys,
                  [i \in 1..Len(target.keys) |->
                     IF target.keys[i] = Head(keys) THEN Get(source, Head(keys))
                     ELSE target.vals[i]])
         ELSE Obj(Append(target.keys, Head(keys)),
                  Append(target.vals, Get(source, Head(keys)))),
         source, Tail(keys))

spread(target, source) ==
  IF source.t = "object" THEN spreadKeys(target, source, ObjectKeys(source)) ELSE target

\* the same with the earlier value kept for a key both hold
spreadKeepingEarlier(target, source) ==
  IF source.t = "object"
  THEN spreadKeys(target, source,
                  SelectSeq(ObjectKeys(source), LAMBDA key : ~HasKey(target, key)))
  ELSE target

DefaultBuilder == [kind |-> "default", output |-> Undefined]
ConstantBuilder(output) == [kind |-> "constant", output |-> output]
PathBuilder == [kind |-> "path", output |-> Undefined]
ThrowingBuilder == [kind |-> "throws", output |-> Undefined]

\* a request handed to buildContext, or no request (undefined)
BuilderRequest(defined, request) == [defined |-> defined, request |-> request]

\* builder(request) throws: by itself, or by reading a property of undefined
builder_throws(builder, request) ==
  \/ builder.kind = "throws"
  \/ builder.kind \in {"default", "path"} /\ ~request.defined

\* builder(request)
builderOutput(builder, request, now) ==
  IF builder.kind = "default" THEN buildContext(request.request, now)
  ELSE IF builder.kind = "path" THEN Obj1(sPath, Str(request.request.path))
  ELSE builder.output

\* registerContextBuilder(builder)
registerContextBuilder(contextBuilders, builder) == Append(contextBuilders, builder)

\* one turn of the loop of buildContext with the try of the code removed
applyBuilderUncaught(state, builder, request, now) ==
  IF state.threw THEN state
  ELSE IF builder_throws(builder, request)
  THEN [threw |-> TRUE, context |-> state.context]
  ELSE [threw |-> FALSE,
        context |-> spread(state.context, builderOutput(builder, request, now))]

\* one turn of the loop of buildContext: what the builder throws is caught
applyBuilder(state, builder, request, now) ==
  IF state.threw THEN state
  ELSE IF builder_throws(builder, request)
  THEN [threw |-> FALSE, context |-> state.context]
  ELSE [threw |-> FALSE,
        context |-> spread(state.context, builderOutput(builder, request, now))]

RECURSIVE applyBuilders(_, _, _, _)
applyBuilders(state, contextBuilders, request, now) ==
  IF Len(contextBuilders) = 0 THEN state
  ELSE applyBuilders(applyBuilder(state, Head(contextBuilders), request, now),
                     Tail(contextBuilders), request, now)

\* buildContext(request) of a resolver with the given default context and
\* builders
buildContextWith(defaultContext, contextBuilders, request, now) ==
  applyBuilders([threw |-> FALSE, context |-> spread(Obj(<< >>, << >>), defaultContext)],
                contextBuilders, request, now)

MaxBuilders == 2

BuilderPool ==
  { ConstantBuilder(Obj(<<sName, sId>>, <<Str(sA), nOne>>)),
    ConstantBuilder(Obj(<<sTimestamp, sName>>, <<Str(sB), Str(sB)>>)),
    ConstantBuilder(Null),
    PathBuilder,
    ThrowingBuilder }

DefaultContexts == {Obj(<< >>, << >>), Obj(<<sName, sExtra>>, <<Str(sZero), nTwo>>)}

BuilderRequests ==
  { BuilderRequest(TRUE, ResolverRequest(sGet, sUsers1, Obj1(sId, Str(<<"1">>)))),
    BuilderRequest(FALSE, ResolverRequest(<< >>, << >>, Undefined)) }

NotBuilt == [called |-> FALSE, threw |-> FALSE, context |-> Undefined]

VARIABLES
  defaultContext,   \* this.options.defaultContext
  contextBuilders,  \* this.contextBuilders
  builtFor,         \* the request of the last buildContext call
  built             \* what that call returned, or that it threw

varsContext == <<defaultContext, contextBuilders, builtFor, built>>

IdleContext ==
  /\ defaultContext = Obj(<< >>, << >>)
  /\ contextBuilders = <<DefaultBuilder>>
  /\ builtFor = BuilderRequest(FALSE, ResolverRequest(<< >>, << >>, Undefined))
  /\ built = NotBuilt

\* new ResponseResolver({ defaultContext }): the default builder is registered
InitContext ==
  /\ defaultContext \in DefaultContexts
  /\ contextBuilders = <<DefaultBuilder>>
  /\ builtFor = BuilderRequest(FALSE, ResolverRequest(<< >>, << >>, Undefined))
  /\ built = NotBuilt

\* registerContextBuilder(builder)
RegisterContextBuilder(builder) ==
  /\ Len(contextBuilders) < MaxBuilders + 1
  /\ contextBuilders' = registerContextBuilder(contextBuilders, builder)
  /\ UNCHANGED <<defaultContext, builtFor, built>>

\* buildContext(request)
BuildContext(request) ==
  /\ \E state \in {buildContextWith(defaultContext, contextBuilders, request, 1)} :
       built' = [called |-> TRUE, threw |-> state.threw, context |-> state.context]
  /\ builtFor' = request
  /\ UNCHANGED <<defaultContext, contextBuilders>>

(***************************************************************************)
(* Session filter (cli_json_exporter.js): setFilter and filterSession      *)
(***************************************************************************)
sFilesAJson == <<"/", "f", "i", "l", "e", "s", "/", "a", ".", "j", "s", "o", "n">>
sFilesAxjson == <<"/", "f", "i", "l", "e", "s", "/", "a", "x", "j", "s", "o", "n">>
sUsersStar == <<"/", "u", "s", "e", "r", "s", "/", "*">>
sUsersStarNoSlash == <<"u", "s", "e", "r", "s", "/", "*">>
sFilesStarJson == <<"/", "f", "i", "l", "e", "s", "/", "*", ".", "j", "s", "o", "n">>
sFilesWord == <<"f", "i", "l", "e", "s">>
sSmoke == <<"s", "m", "o", "k", "e">>
sSlow == <<"s", "l", "o", "w">>
sNightly == <<"n", "i", "g", "h", "t", "l", "y">>

\* an interaction of a saved session with its tags array
TaggedInteraction(method, path, tags) ==
  [request |-> [method |-> method, path |-> path], tags |-> tags]
\* an interaction saved without a tags property
UntaggedInteraction(method, path) ==
  [request |-> [method |-> method, path |-> path]]

\* a session: tags is session.metadata?.tags || []
FilterSessions ==
  { [tags |-> <<sNightly>>,
     interactions |-> <<TaggedInteraction(sGet, sUsers1, <<sSmoke>>),
                        UntaggedInteraction(sPost, sFilesAJson),
                        TaggedInteraction(sGet, sFilesAxjson, <<sSlow, sSmoke>>)>>],
    [tags |-> << >>,
     interactions |-> <<TaggedInteraction(sPost, sUsers1, << >>),
                        TaggedInteraction(sGet, sFilesAJson, <<sSmoke>>)>>] }

FilterCriteria ==
  { Filter(methods, routes, tags, sessionTags) :
      methods \in {<< >>, <<sGetLower>>, <<sPost, sGetLower>>},
      routes \in {<< >>, <<sUsersStar>>, <<sFilesWord>>, <<sFilesStarJson>>,
                  <<sUsersStarNoSlash, sFilesStarJson>>},
      tags \in {<< >>, <<sSmoke>>},
      sessionTags \in {<< >>, <<sNightly>>} }

NotFiltered == [called |-> FALSE, tags |-> << >>, interactions |-> << >>, kept |-> << >>]

VARIABLES
  filterCriteria,   \* this.filter
  filtered          \* the last call of filterSession: its session and the
                    \* positions of the interactions of the session it returned

varsFilter == <<filterCriteria, filtered>>

IdleFilter ==
  /\ filterCriteria = NoFilter
  /\ filtered = NotFiltered

InitFilter == IdleFilter

\* setFilter(filterCriteria)
SetFilter(criteria) ==
  /\ filterCriteria' = criteria
  /\ UNCHANGED filtered

\* filterSession(session)
FilterSession(session) ==
  /\ filtered' = [called |-> TRUE, tags |-> session.tags,
                  interactions |-> session.interactions,
                  kept |-> filterSession(filterCriteria, session.tags,
                                         session.interactions)]
  /\ UNCHANGED filterCriteria

(***************************************************************************)
(* The request matcher of the replay middleware (interaction_tagger.js):   *)
(* findMatchingResponse on sessions that recordInteraction produced.       *)
(***************************************************************************)
\* null
NoMatchingResponse == [found |-> FALSE, response |-> [statusCode |-> 0, body |-> Undefined]]

\* the position of the first interaction with the hash, 0 when there is none
firstWithHash(interactions, requestHash) ==
  IF \E i \in 1..Len(interactions) : interactions[i].requestHash = requestHash
  THEN CHOOSE i \in 1..Len(interactions) :
         /\ interactions[i].requestHash = requestHash
         /\ \A j \in 1..(i - 1) : interactions[j].requestHash # requestHash
  ELSE 0

\* findMatchingResponse(session, request): null is found = FALSE
findMatchingResponseAt(interactions, position) ==
  IF position = 0 THEN NoMatchingResponse
  ELSE [found |-> TRUE, response |-> interactions[position].response]

findMatchingResponse(interactions, request) ==
  findMatchingResponseAt(
    interactions,
    firstWithHash(interactions,
                  generateContentHash(Obj(<<sMethod, sPath, sQuery, sBody>>,
                                          <<request.method, request.path,
                                            request.query, request.body>>))))

\* the requests the server saw while recording, and sees again on replay
MatchedRequests ==
  {IncomingRequest(Str(method), Str(sPathA), query, Obj1(sAccept, Str(sJson)), body) :
     method \in {sGet, sPost},
     query \in {Obj(<< >>, << >>), Obj(<<sA, sB>>, <<Str(sA), Str(sB)>>)},
     body \in {Undefined, Obj1(sName, Str(sA)), Obj1(sPassword, Str(sB))}}

MatchedResponses ==
  {IncomingResponse(200, Obj1(sName, Str(sA)), Undefined),
   IncomingResponse(201, Obj1(sName, Str(sB)), Undefined)}

\* the interactions recordInteraction pushes for the requests in turn
recordAll(opts, requests, responses) ==
  [i \in 1..Len(requests) |-> recordInteraction(opts, requests[i], responses[i], i)]

NotMatched == [called |-> FALSE, request |-> IncomingRequest(Undefined, Undefined, Undefined, Undefined, Undefined), result |-> NoMatchingResponse]

VARIABLES
  recordedFrom,   \* the requests the session was recorded from, in order
  sessionData,    \* the interactions of the session the middleware loaded
  matched         \* the last call of findMatchingResponse and its result

varsMatch == <<recordedFrom, sessionData, matched>>

IdleMatch ==
  /\ recordedFrom = << >>
  /\ sessionData = << >>
  /\ matched = NotMatched

InitMatch ==
  /\ \E opts \in {RecorderOptions(TRUE, includeBody) : includeBody \in BOOLEAN} :
       \E first \in MatchedRequests : \E second \in MatchedRequests :
         \E count \in 1..2 :
           /\ recordedFrom = SubSeq(<<first, second>>, 1, count)
           /\ sessionData =
                recordAll(opts, SubSeq(<<first, second>>, 1, count),
                          <<IncomingResponse(200, Obj1(sName, Str(sA)), Undefined),
                            IncomingResponse(201, Obj1(sName, Str(sB)), Undefined)>>)
  /\ matched = NotMatched

\* findMatchingResponse(sessionData, {method, path, query, body}) as the
\* replay middleware calls it for an incoming request
FindMatchingResponse(req) ==
  /\ matched' = [called |-> TRUE, request |-> req,
                 result |-> findMatchingResponse(sessionData, req)]
  /\ UNCHANGED <<recordedFrom, sessionData>>

(***************************************************************************)
(* Sequences of setStrict calls on one verifier (cli_flag_config.js).      *)
(***************************************************************************)
MaxStrictCalls == 4

\* the arguments of setStrict: the two booleans and a value of another type
StrictArguments == {"true", "false", "other"}

VARIABLES
  strictVerifier,   \* options.tolerances and _originalTolerances
  constructedWith,  \* options.tolerances at construction
  strictCalls,      \* the arguments of the calls so far
  strictThrew       \* whether the last call threw

varsStrict == <<strictVerifier, constructedWith, strictCalls, strictThrew>>

IdleStrict ==
  /\ strictVerifier = [tolerances |-> NoTolerances, original |-> NoOriginalTolerances]
  /\ constructedWith = NoTolerances
  /\ strictCalls = << >>
  /\ strictThrew = FALSE

InitStrict ==
  /\ constructedWith \in TolerancesUniverse
  /\ strictVerifier = [tolerances |-> constructedWith, original |-> NoOriginalTolerances]
  /\ strictCalls = << >>
  /\ strictThrew = FALSE

\* verifier.setStrict(argument)
CallSetStrict(argument) ==
  /\ Len(strictCalls) < MaxStrictCalls
  /\ strictCalls' = Append(strictCalls, argument)
  /\ IF argument \notin {"true", "false"}
     THEN /\ strictThrew' = TRUE
          /\ UNCHANGED strictVerifier
     ELSE /\ strictThrew' = FALSE
          /\ strictVerifier' = setStrict(strictVerifier, argument = "true")
  /\ UNCHANGED constructedWith

(***************************************************************************)
(* The tag command (cli_table_renderer.js) with tagSession and saveSession *)
(* of the recorder (cli_filter_support.js).                                *)
(***************************************************************************)
\* String.prototype.trim for texts with blanks
RECURSIVE trimStart(_)
trimStart(s) == IF Len(s) > 0 /\ Head(s) = " " THEN trimStart(Tail(s)) ELSE s
RECURSIVE trimEnd(_)
trimEnd(s) ==
  IF Len(s) > 0 /\ s[Len(s)] = " " THEN trimEnd(SubSeq(s, 1, Len(s) - 1)) ELSE s
trim(s) == trimStart(trimEnd(s))

\* a session object: a property that is not set is absent from properties
SessionObject(properties, id, sessionId, tags) ==
  [properties |-> properties, id |-> id, sessionId |-> sessionId, tags |-> tags]

\* this.sessions.find(s => s.id === sessionId) || (the current session):
\* the first position with that id, 0 when there is none. An id or a
\* session id that is not set is undefined
findSessionById(recorderSessions, hasSessionId, sessionId) ==
  IF \E i \in 1..Len(recorderSessions) :
       IF "id" \in recorderSessions[i].properties
       THEN hasSessionId /\ recorderSessions[i].id = sessionId
       ELSE ~hasSessionId
  THEN CHOOSE i \in 1..Len(recorderSessions) :
         /\ IF "id" \in recorderSessions[i].properties
            THEN hasSessionId /\ recorderSessions[i].id = sessionId
            ELSE ~hasSessionId
         /\ \A j \in 1..(i - 1) :
              ~(IF "id" \in recorderSessions[j].properties
                THEN hasSessionId /\ recorderSessions[j].id = sessionId
                ELSE ~hasSessionId)
  ELSE 0

\* newTags.forEach(tag => { if (!tags.includes(tag)) tags.push(tag) })
RECURSIVE pushNewTags(_, _)
pushNewTags(tags, newTags) ==
  IF Len(newTags) = 0 THEN tags
  ELSE pushNewTags(IF Head(newTags) \in Range(tags) THEN tags
                   ELSE Append(tags, Head(newTags)),
                   Tail(newTags))

\* tagSession(sessionId, tags) on the session found: metadata.tags is made
\* if it is not there
tagSession(session, newTags) ==
  [session EXCEPT
     !.properties = @ \cup {"tags"},
     !.tags = pushNewTags(IF "tags" \in session.properties THEN session.tags ELSE << >>,
                          newTags)]

NotTagged ==
  [ran |-> FALSE, exitCode |-> 0, error |-> "", saved |-> FALSE, tags |-> << >>]

\* the action of the tag command with --tags alone: the session the file
\* holds is pushed to recorder.sessions, tagged by its sessionId when --tags
\* is given, and saved by its sessionId; tagSession and saveSession throw
\* when they find no session with that id
tagCommand(loadable, session, tagsText) ==
  IF ~loadable
  THEN [ran |-> TRUE, exitCode |-> 1, error |-> "Failed to load session",
        saved |-> FALSE, tags |-> << >>]
  ELSE IF findSessionById(<<session>>, "sessionId" \in session.properties,
                          session.sessionId) = 0
  THEN [ran |-> TRUE, exitCode |-> 1, error |-> "Session with ID not found",
        saved |-> FALSE, tags |-> << >>]
  ELSE [ran |-> TRUE, exitCode |-> 0, error |-> "", saved |-> TRUE,
        tags |-> IF Len(tagsText) > 0
                 THEN tagSession(session,
                                 [i \in 1..Len(split(tagsText, ",")) |->
                                    trim(split(tagsText, ",")[i])]).tags
                 ELSE IF "tags" \in session.properties THEN session.tags ELSE << >>]

sC == <<"c">>

\* session files: in the format saveSession writes (sessionId), in the
\* format of the recorder's memory (id), and with both
TagSessionFiles ==
  {SessionObject(properties \cup {"tags"}, <<"s", "1">>, <<"s", "1">>, tags) :
     properties \in {{"sessionId"}, {"id"}, {"id", "sessionId"}},
     tags \in {<< >>, <<sA>>, <<sA, sB>>}}
    \cup {SessionObject(properties, <<"s", "1">>, <<"s", "1">>, << >>) :
            properties \in {{"sessionId"}, {"id"}, {"id", "sessionId"}}}

\* values of --tags; the empty text stands for a command line without it
TagsOptions ==
  {<< >>, <<"a">>, <<"c">>, <<"a", ",", "c">>, <<"b", ",", " ", "c">>,
   <<"c", ",", "c">>, <<" ", "a", " ">>, <<"c", ",", "b", ",", "a">>}

VARIABLES
  tagLoadable,   \* whether loadSession gives the session of the file
  tagFile,       \* the session the file holds
  tagsOption,    \* the value of --tags
  tagOutcome     \* how the command ended and the tags it saved

varsTag == <<tagLoadable, tagFile, tagsOption, tagOutcome>>

IdleTag ==
  /\ tagLoadable = FALSE
  /\ tagFile = SessionObject({}, << >>, << >>, << >>)
  /\ tagsOption = << >>
  /\ tagOutcome = NotTagged

InitTag ==
  /\ tagLoadable \in BOOLEAN
  /\ tagFile \in TagSessionFiles
  /\ tagsOption \in TagsOptions
  /\ tagOutcome = NotTagged

\* tag <sessionFile> --tags <tags>
TagCommand ==
  /\ ~tagOutcome.ran
  /\ tagOutcome' = tagCommand(tagLoadable, tagFile, tagsOption)
  /\ UNCHANGED <<tagLoadable, tagFile, tagsOption>>

(***************************************************************************)
(* A server hooked by hookIntoServer (interaction_tagger.js): the          *)
(* middleware replaces res.send and res.json of every response.  In        *)
(* Express the original res.json serializes the body and calls             *)
(* this.send(text), and the original res.send called with an object that   *)
(* is not null calls this.json(object); this is the response, so both      *)
(* calls reach the replaced methods.                                       *)
(***************************************************************************)
MaxHandled == 2

HookOptions == RecorderOptions(TRUE, TRUE)

\* the body of the overriding res.send and res.json before the call of the
\* original method: res.body = body, res.duration is set, and the
\* interaction is recorded when isRecording is set
hookRecord(server, req, statusCode, body) ==
  IF server.isRecording
  THEN [server EXCEPT
          !.interactions =
             Append(@, recordInteraction(HookOptions, req,
                                         IncomingResponse(statusCode, body, Num(0, 1)),
                                         Len(server.interactions) + 1))]
  ELSE server

\* res.send(body) and res.json(body) as replaced by the middleware, each
\* followed by the original method of Express
RECURSIVE resSend(_, _, _, _), resJson(_, _, _, _)
resSend(server, req, statusCode, body) ==
  IF body.t \in {"object", "array"}
  THEN resJson(hookRecord(server, req, statusCode, body), req, statusCode, body)
  ELSE [hookRecord(server, req, statusCode, body) EXCEPT !.written = Append(@, body)]

resJson(server, req, statusCode, body) ==
  resSend(hookRecord(server, req, statusCode, body), req, statusCode,
          Str(stringify(body)))

sOk == <<"o", "k">>

HandledRequests ==
  {IncomingRequest(Str(method), Str(sPathA), Obj(<< >>, << >>), Obj1(sAccept, Str(sJson)),
                   Undefined) : method \in {sGet, sPost}}

SentBodies == {Str(sOk), Obj1(sName, Str(sA)), Arr(<<Str(sA)>>)}

VARIABLES
  hookedServer,   \* isRecording, the interactions of the current session
                  \* and the bodies written to the clients
  lastHandled     \* the last response a handler sent: the method it
                  \* called, its body, and the counts before the call

varsHook == <<hookedServer, lastHandled>>

NotHandled == [called |-> FALSE, via |-> "", body |-> Undefined, recording |-> FALSE, recordedBefore |-> 0]

IdleHook ==
  /\ hookedServer = [isRecording |-> FALSE, interactions |-> << >>, written |-> << >>]
  /\ lastHandled = NotHandled

InitHook == IdleHook

\* startRecording() of the recorder behind the hook
StartHookedRecording ==
  /\ IF hookedServer.isRecording
     THEN UNCHANGED hookedServer
     ELSE hookedServer' = [hookedServer EXCEPT !.isRecording = TRUE,
                                               !.interactions = << >>]
  /\ UNCHANGED lastHandled

\* stopRecording(): the session leaves the recorder
StopHookedRecording ==
  /\ IF ~hookedServer.isRecording
     THEN UNCHANGED hookedServer
     ELSE hookedServer' = [hookedServer EXCEPT !.isRecording = FALSE,
                                               !.interactions = << >>]
  /\ UNCHANGED lastHandled

\* a request handled by a route that answers with res.send(body) or
\* res.json(body)
HandleRequest(req, via, body) ==
  /\ Len(hookedServer.written) < MaxHandled
  /\ hookedServer' = IF via = "send" THEN resSend(hookedServer, req, 200, body)
                     ELSE resJson(hookedServer, req, 200, body)
  /\ lastHandled' = [called |-> TRUE, via |-> via, body |-> body,
                     recording |-> hookedServer.isRecording,
                     recordedBefore |-> Len(hookedServer.interactions)]

vars == <<varsReplay, varsCompare, varsTolerance, varsRecorder, varsHash, varsEnhanced, varsTemplate, varsCli, varsTimestamps, varsContext, varsFilter, varsMatch, varsStrict, varsTag, varsHook>>

\* every component at rest
IdleAll ==
  /\ IdleReplay
  /\ IdleCompare
  /\ IdleTolerance
  /\ IdleRecorder
  /\ IdleHash
  /\ IdleEnhanced
  /\ IdleTemplate
  /\ IdleCli
  /\ IdleTimestamps
  /\ IdleContext
  /\ IdleFilter
  /\ IdleMatch
  /\ IdleStrict
  /\ IdleTag
  /\ IdleHook

\* the variables each specification leaves alone
exceptReplay == <<varsCompare, varsTolerance, varsRecorder, varsHash, varsEnhanced, varsTemplate, varsCli, varsTimestamps, varsContext, varsFilter, varsMatch, varsStrict, varsTag, varsHook>>
exceptCompare == <<varsReplay, varsTolerance, varsRecorder, varsHash, varsEnhanced, varsTemplate, varsCli, varsTimestamps, varsContext, varsFilter, varsMatch, varsStrict, varsTag, varsHook>>
exceptTolerance == <<varsReplay, varsCompare, varsRecorder, varsHash, varsEnhanced, varsTemplate, varsCli, varsTimestamps, varsContext, varsFilter, varsMatch, varsStrict, varsTag, varsHook>>
exceptRecorder == <<varsReplay, varsCompare, varsTolerance, varsHash, varsEnhanced, varsTemplate, varsCli, varsTimestamps, varsContext, varsFilter, varsMatch, varsStrict, varsTag, varsHook>>
exceptHash == <<varsReplay, varsCompare, varsTolerance, varsRecorder, varsEnhanced, varsTemplate, varsCli, varsTimestamps, varsContext, varsFilter, varsMatch, varsStrict, varsTag, varsHook>>
exceptEnhanced == <<varsReplay, varsCompare, varsTolerance, varsRecorder, varsHash, varsTemplate, varsCli, varsTimestamps, varsContext, varsFilter, varsMatch, varsStrict, varsTag, varsHook>>
exceptTemplate == <<varsReplay, varsCompare, varsTolerance, varsRecorder, varsHash, varsEnhanced, varsCli, varsTimestamps, varsContext, varsFilter, varsMatch, varsStrict, varsTag, varsHook>>
exceptCli == <<varsReplay, varsCompare, varsTolerance, varsRecorder, varsHash, varsEnhanced, varsTemplate, varsTimestamps, varsContext, varsFilter, varsMatch, varsStrict, varsTag, varsHook>>
exceptTimestamps == <<varsReplay, varsCompare, varsTolerance, varsRecorder, varsHash, varsEnhanced, varsTemplate, varsCli, varsContext, varsFilter, varsMatch, varsStrict, varsTag, varsHook>>
exceptContext == <<varsReplay, varsCompare, varsTolerance, varsRecorder, varsHash, varsEnhanced, varsTemplate, varsCli, varsTimestamps, varsFilter, varsMatch, varsStrict, varsTag, varsHook>>
exceptFilter == <<varsReplay, varsCompare, varsTolerance, varsRecorder, varsHash, varsEnhanced, varsTemplate, varsCli, varsTimestamps, varsContext, varsMatch, varsStrict, varsTag, varsHook>>
exceptMatch == <<varsReplay, varsCompare, varsTolerance, varsRecorder, varsHash, varsEnhanced, varsTemplate, varsCli, varsTimestamps, varsContext, varsFilter, varsStrict, varsTag, varsHook>>
exceptStrict == <<varsReplay, varsCompare, varsTolerance, varsRecorder, varsHash, varsEnhanced, varsTemplate, varsCli, varsTimestamps, varsContext, varsFilter, varsMatch, varsTag, varsHook>>
exceptTag == <<varsReplay, varsCompare, varsTolerance, varsRecorder, varsHash, varsEnhanced, varsTemplate, varsCli, varsTimestamps, varsContext, varsFilter, varsMatch, varsStrict, varsHook>>
exceptHook == <<varsReplay, varsCompare, varsTolerance, varsRecorder, varsHash, varsEnhanced, varsTemplate, varsCli, varsTimestamps, varsContext, varsFilter, varsMatch, varsStrict, varsTag>>

(***************************************************************************)
(* Specifications                                                          *)
(***************************************************************************)
Init ==
  /\ InitReplay
  /\ IdleCompare
  /\ IdleTolerance
  /\ IdleRecorder
  /\ IdleHash
  /\ IdleEnhanced
  /\ IdleTemplate
  /\ IdleCli
  /\ IdleTimestamps
  /\ IdleContext
  /\ IdleFilter
  /\ IdleMatch
  /\ IdleStrict
  /\ IdleTag
  /\ IdleHook

Next ==
  \/ (\E session \in SessionFiles : LoadSession(session)) /\ UNCHANGED exceptReplay
  \/ (\E strict \in BOOLEAN : SetStrict(strict)) /\ UNCHANGED exceptReplay
  \/ (SetStrictRejected) /\ UNCHANGED exceptReplay
  \/ (\E sessionId \in SessionIds : StartReplay(sessionId)) /\ UNCHANGED exceptReplay
  \/ (\E replayedResponse \in ReplayOutcomes : ReplayInteraction(replayedResponse)) /\ UNCHANGED exceptReplay
  \/ (FinishReplay) /\ UNCHANGED exceptReplay

Spec == Init /\ [][Next]_vars

InitCompareSpec ==
  /\ InitCompare
  /\ IdleReplay
  /\ IdleTolerance
  /\ IdleRecorder
  /\ IdleHash
  /\ IdleEnhanced
  /\ IdleTemplate
  /\ IdleCli
  /\ IdleTimestamps
  /\ IdleContext
  /\ IdleFilter
  /\ IdleMatch
  /\ IdleStrict
  /\ IdleTag
  /\ IdleHook

NextCompare ==
  \/ (CompareBase) /\ UNCHANGED exceptCompare
  \/ (CompareTolerant) /\ UNCHANGED exceptCompare

SpecCompare == InitCompareSpec /\ [][NextCompare]_vars

InitToleranceSpec ==
  /\ InitTolerance
  /\ IdleReplay
  /\ IdleCompare
  /\ IdleRecorder
  /\ IdleHash
  /\ IdleEnhanced
  /\ IdleTemplate
  /\ IdleCli
  /\ IdleTimestamps
  /\ IdleContext
  /\ IdleFilter
  /\ IdleMatch
  /\ IdleStrict
  /\ IdleTag
  /\ IdleHook

NextTolerance ==
  \/ (ReplayBefore) /\ UNCHANGED exceptTolerance
  \/ (ReplayAfter) /\ UNCHANGED exceptTolerance

SpecTolerance == InitToleranceSpec /\ [][NextTolerance]_vars

InitRecorderSpec ==
  /\ InitRecorder
  /\ IdleReplay
  /\ IdleCompare
  /\ IdleTolerance
  /\ IdleHash
  /\ IdleEnhanced
  /\ IdleTemplate
  /\ IdleCli
  /\ IdleTimestamps
  /\ IdleContext
  /\ IdleFilter
  /\ IdleMatch
  /\ IdleStrict
  /\ IdleTag
  /\ IdleHook

NextRecorder ==
  \/ (\E sessionName \in SessionIds : StartRecording(sessionName)) /\ UNCHANGED exceptRecorder
  \/ (StopRecording) /\ UNCHANGED exceptRecorder
  \/ (\E req \in RecordedRequests : \E res \in RecordedResponses : RecordInteraction(req, res)) /\ UNCHANGED exceptRecorder

SpecRecorder == InitRecorderSpec /\ [][NextRecorder]_vars

InitHashSpec ==
  /\ InitHash
  /\ IdleReplay
  /\ IdleCompare
  /\ IdleTolerance
  /\ IdleRecorder
  /\ IdleEnhanced
  /\ IdleTemplate
  /\ IdleCli
  /\ IdleTimestamps
  /\ IdleContext
  /\ IdleFilter
  /\ IdleMatch
  /\ IdleStrict
  /\ IdleTag
  /\ IdleHook

NextHash ==
  \/ (HashLeft) /\ UNCHANGED exceptHash
  \/ (HashRight) /\ UNCHANGED exceptHash

SpecHash == InitHashSpec /\ [][NextHash]_vars

InitEnhancedSpec ==
  /\ InitEnhanced
  /\ IdleReplay
  /\ IdleCompare
  /\ IdleTolerance
  /\ IdleRecorder
  /\ IdleHash
  /\ IdleTemplate
  /\ IdleCli
  /\ IdleTimestamps
  /\ IdleContext
  /\ IdleFilter
  /\ IdleMatch
  /\ IdleStrict
  /\ IdleTag
  /\ IdleHook

NextEnhanced ==
  \/ (\E route \in RegisteredRoutes : RegisterTemplate(route.pattern, route.template, route.options)) /\ UNCHANGED exceptEnhanced
  \/ (ClearCaches) /\ UNCHANGED exceptEnhanced
  \/ (\E request \in ResolverRequests : FindMatchingTemplate(request)) /\ UNCHANGED exceptEnhanced
  \/ (\E request \in ResolverRequests : \E liveResponse \in LiveResponses : ReplayRequest(request, liveResponse)) /\ UNCHANGED exceptEnhanced
  \/ (\E lives \in LiveAnswers : ReplayAgainstContract(lives)) /\ UNCHANGED exceptEnhanced
  \/ (\E loaded \in BOOLEAN : \E lives \in LiveAnswers : ReplayWithTemplates(loaded, lives)) /\ UNCHANGED exceptEnhanced

SpecEnhanced == InitEnhancedSpec /\ [][NextEnhanced]_vars

InitTemplateSpec ==
  /\ InitTemplate
  /\ IdleReplay
  /\ IdleCompare
  /\ IdleTolerance
  /\ IdleRecorder
  /\ IdleHash
  /\ IdleEnhanced
  /\ IdleCli
  /\ IdleTimestamps
  /\ IdleContext
  /\ IdleFilter
  /\ IdleMatch
  /\ IdleStrict
  /\ IdleTag
  /\ IdleHook

NextTemplate ==
  \/ (Render) /\ UNCHANGED exceptTemplate

SpecTemplate == InitTemplateSpec /\ [][NextTemplate]_vars

InitCliSpec ==
  /\ InitCli
  /\ IdleReplay
  /\ IdleCompare
  /\ IdleTolerance
  /\ IdleRecorder
  /\ IdleHash
  /\ IdleEnhanced
  /\ IdleTemplate
  /\ IdleTimestamps
  /\ IdleContext
  /\ IdleFilter
  /\ IdleMatch
  /\ IdleStrict
  /\ IdleTag
  /\ IdleHook

NextCli ==
  \/ (ReplayCommand) /\ UNCHANGED exceptCli

SpecCli == InitCliSpec /\ [][NextCli]_vars

InitTimestampsSpec ==
  /\ InitTimestamps
  /\ IdleReplay
  /\ IdleCompare
  /\ IdleTolerance
  /\ IdleRecorder
  /\ IdleHash
  /\ IdleEnhanced
  /\ IdleTemplate
  /\ IdleCli
  /\ IdleContext
  /\ IdleFilter
  /\ IdleMatch
  /\ IdleStrict
  /\ IdleTag
  /\ IdleHook

NextTimestamps ==
  \/ (CompareValues) /\ UNCHANGED exceptTimestamps

SpecTimestamps == InitTimestampsSpec /\ [][NextTimestamps]_vars

InitContextSpec ==
  /\ InitContext
  /\ IdleReplay
  /\ IdleCompare
  /\ IdleTolerance
  /\ IdleRecorder
  /\ IdleHash
  /\ IdleEnhanced
  /\ IdleTemplate
  /\ IdleCli
  /\ IdleTimestamps
  /\ IdleFilter
  /\ IdleMatch
  /\ IdleStrict
  /\ IdleTag
  /\ IdleHook

NextContext ==
  \/ (\E builder \in BuilderPool : RegisterContextBuilder(builder)) /\ UNCHANGED exceptContext
  \/ (\E request \in BuilderRequests : BuildContext(request)) /\ UNCHANGED exceptContext

SpecContext == InitContextSpec /\ [][NextContext]_vars

InitFilterSpec ==
  /\ InitFilter
  /\ IdleReplay
  /\ IdleCompare
  /\ IdleTolerance
  /\ IdleRecorder
  /\ IdleHash
  /\ IdleEnhanced
  /\ IdleTemplate
  /\ IdleCli
  /\ IdleTimestamps
  /\ IdleContext
  /\ IdleMatch
  /\ IdleStrict
  /\ IdleTag
  /\ IdleHook

NextFilter ==
  \/ (\E criteria \in FilterCriteria \cup {NoFilter} : SetFilter(criteria)) /\ UNCHANGED exceptFilter
  \/ (\E session \in FilterSessions : FilterSession(session)) /\ UNCHANGED exceptFilter

SpecFilter == InitFilterSpec /\ [][NextFilter]_vars

InitMatchSpec ==
  /\ InitMatch
  /\ IdleReplay
  /\ IdleCompare
  /\ IdleTolerance
  /\ IdleRecorder
  /\ IdleHash
  /\ IdleEnhanced
  /\ IdleTemplate
  /\ IdleCli
  /\ IdleTimestamps
  /\ IdleContext
  /\ IdleFilter
  /\ IdleStrict
  /\ IdleTag
  /\ IdleHook

NextMatch ==
  \/ (\E req \in MatchedRequests : FindMatchingResponse(req)) /\ UNCHANGED exceptMatch

SpecMatch == InitMatchSpec /\ [][NextMatch]_vars

InitStrictSpec ==
  /\ InitStrict
  /\ IdleReplay
  /\ IdleCompare
  /\ IdleTolerance
  /\ IdleRecorder
  /\ IdleHash
  /\ IdleEnhanced
  /\ IdleTemplate
  /\ IdleCli
  /\ IdleTimestamps
  /\ IdleContext
  /\ IdleFilter
  /\ IdleMatch
  /\ IdleTag
  /\ IdleHook

NextStrict ==
  \/ (\E argument \in StrictArguments : CallSetStrict(argument)) /\ UNCHANGED exceptStrict

SpecStrict == InitStrictSpec /\ [][NextStrict]_vars

InitTagSpec ==
  /\ InitTag
  /\ IdleReplay
  /\ IdleCompare
  /\ IdleTolerance
  /\ IdleRecorder
  /\ IdleHash
  /\ IdleEnhanced
  /\ IdleTemplate
  /\ IdleCli
  /\ IdleTimestamps
  /\ IdleContext
  /\ IdleFilter
  /\ IdleMatch
  /\ IdleStrict
  /\ IdleHook

NextTag ==
  \/ (TagCommand) /\ UNCHANGED exceptTag

SpecTag == InitTagSpec /\ [][NextTag]_vars

InitHookSpec ==
  /\ InitHook
  /\ IdleReplay
  /\ IdleCompare
  /\ IdleTolerance
  /\ IdleRecorder
  /\ IdleHash
  /\ IdleEnhanced
  /\ IdleTemplate
  /\ IdleCli
  /\ IdleTimestamps
  /\ IdleContext
  /\ IdleFilter
  /\ IdleMatch
  /\ IdleStrict
  /\ IdleTag

NextHook ==
  \/ (StartHookedRecording) /\ UNCHANGED exceptHook
  \/ (StopHookedRecording) /\ UNCHANGED exceptHook
  \/ (\E req \in HandledRequests : \E via \in {"send", "json"} : \E body \in SentBodies : HandleRequest(req, via, body)) /\ UNCHANGED exceptHook

SpecHook == InitHookSpec /\ [][NextHook]_vars

(***************************************************************************)
(* Properties                                                              *)
(***************************************************************************)
StoredResults == {replayResults[id].results : id \in {i \in SessionIds : replayResults[i].stored}}

SummaryAddsUp(res, processed) ==
  /\ res.summary.total =
       res.summary.compatible + res.summary.incompatible + res.summary.errors
  /\ res.summary.total = processed
  /\ res.summary.total = Len(res.interactionResults)

\* C1: while replayAgainstContract goes through a loaded session, and when it
\* has returned, summary.total = compatible + incompatible + errors and
\* summary.total is the number of interactions processed so far.
C1_TotalIsSumAndCount ==
  /\ pc = "replaying" => SummaryAddsUp(results, cursor)
  /\ \A res \in StoredResults : SummaryAddsUp(res, Len(res.interactionResults))

\* a returned replay of two interactions, one an error and one compatible
C1_Witness ==
  \E res \in StoredResults :
    /\ res.summary.total = 2
    /\ res.summary.errors = 1
    /\ res.summary.compatible = 1

Interactions == originalSessions[results.sessionId].data.interactions

\* C2: a pass of the loop never ends the replay with an exception: it
\* appends one entry and goes on to the next interaction, and when the
\* entry is an error it carries error and timestamp and is counted in
\* errors alone.
C2_ErrorsAreContained ==
  [][ (pc = "replaying" /\ cursor < Len(Interactions))
        => /\ pc' = "replaying"
           /\ lastError' = ""
           /\ cursor' = cursor + 1
           /\ Len(results'.interactionResults) = cursor'
           /\ LET entry == results'.interactionResults[cursor']
              IN entry.hasError =>
                   /\ entry.hasTimestamp
                   /\ results'.summary.errors = results.summary.errors + 1
                   /\ results'.summary.compatible = results.summary.compatible
                   /\ results'.summary.incompatible = results.summary.incompatible ]_vars

Within0To100(score) == score.num >= 0 /\ score.num <= 100 * score.den

\* C6: after updateVerificationSummary, effectiveCompatible >= compatible and
\* effectiveCompatibilityScore >= compatibilityScore, both scores lie in
\* 0..100, and both are 0 when total = 0.
C6_EffectiveAtLeastCompatible ==
  \A res \in StoredResults :
    /\ res.summary.effectiveCompatible >= res.summary.compatible
    /\ ScoreLeq(res.summary.compatibilityScore, res.summary.effectiveCompatibilityScore)
    /\ Within0To100(res.summary.compatibilityScore)
    /\ Within0To100(res.summary.effectiveCompatibilityScore)
    /\ res.summary.total = 0 =>
         /\ res.summary.compatibilityScore.num = 0
         /\ res.summary.effectiveCompatibilityScore.num = 0
    /\ \A i \in 1..Len(res.interactionResults) :
         LET interaction == res.interactionResults[i]
         IN (interaction.hasComparison /\ interaction.comparison.isCompatible)
              => res.summary.effectiveCompatible >= 1

\* a returned replay with a compatible interaction and an interaction that
\* is effectively compatible only
C6_Witness ==
  \E res \in StoredResults :
    /\ res.summary.total = 2
    /\ res.summary.compatible = 1
    /\ res.summary.effectiveCompatible = 2

StrictTolerances == {StrictPreset, CliStrictTolerances}

\* C7: a replay that ends under the strict preset ends with
\* toleratedChanges = 0 and effectiveCompatibilityScore = compatibilityScore.
C7_StrictToleratesNothing ==
  [][ (pc = "replaying" /\ pc' = "idle" /\ lastError' = ""
         /\ options.tolerances \in StrictTolerances)
        => LET res == replayResults'[results.sessionId].results
           IN /\ res.summary.toleratedChanges = 0
              /\ ScoreEq(res.summary.effectiveCompatibilityScore,
                         res.summary.compatibilityScore) ]_vars

(***************************************************************************)
(* What the specification calls a removed field and a changed type, read   *)
(* off the two bodies themselves: the type categories are object,          *)
(* sequence, string, number, boolean and null.                             *)
(***************************************************************************)
TypeCategory(v) == IF v.t = "array" THEN "sequence" ELSE v.t

MinLen(a, b) == IF Len(a) <= Len(b) THEN Len(a) ELSE Len(b)

RECURSIVE bodyFieldRemoved(_, _)
bodyFieldRemoved(lhs, rhs) ==
  IF lhs.t = "object" /\ rhs.t = "object"
  THEN \E i \in 1..Len(lhs.keys) :
         \/ ~HasKey(rhs, lhs.keys[i])
         \/ bodyFieldRemoved(lhs.vals[i], Get(rhs, lhs.keys[i]))
  ELSE IF lhs.t = "array" /\ rhs.t = "array"
  THEN \/ Len(lhs.vals) > Len(rhs.vals)
       \/ \E i \in 1..MinLen(lhs.vals, rhs.vals) : bodyFieldRemoved(lhs.vals[i], rhs.vals[i])
  ELSE FALSE

RECURSIVE bodyFieldTypeChanged(_, _)
bodyFieldTypeChanged(lhs, rhs) ==
  IF TypeCategory(lhs) # TypeCategory(rhs) THEN TRUE
  ELSE IF lhs.t = "object"
  THEN \E i \in 1..Len(lhs.keys) :
         /\ HasKey(rhs, lhs.keys[i])
         /\ bodyFieldTypeChanged(lhs.vals[i], Get(rhs, lhs.keys[i]))
  ELSE IF lhs.t = "array"
  THEN \E i \in 1..MinLen(lhs.vals, rhs.vals) : bodyFieldTypeChanged(lhs.vals[i], rhs.vals[i])
  ELSE FALSE

\* the dotted paths of the object fields present on both sides whose values
\* are of different type categories
RECURSIVE typeChangedFields(_, _, _)
typeChangedFields(lhs, rhs, path) ==
  IF lhs.t = "object" /\ rhs.t = "object"
  THEN UNION {LET key == lhs.keys[i]
                  fullPath == IF path # << >> THEN path \o <<".">> \o key ELSE key
              IN IF ~HasKey(rhs, key) THEN {}
                 ELSE IF TypeCategory(lhs.vals[i]) # TypeCategory(Get(rhs, key))
                 THEN {fullPath}
                 ELSE typeChangedFields(lhs.vals[i], Get(rhs, key), fullPath)
              : i \in 1..Len(lhs.keys)}
  ELSE {}

cOriginalBody == normalizeForComparisonResponse(cOptions, cOriginal).body
cReplayedBody == normalizeForComparisonResponse(cOptions, cReplayed).body

\* C3: for two responses with bodies, compareResponses of the base verifier
\* gives isCompatible exactly when the status codes match, no header was
\* added or removed, no body field was removed and no body field changed
\* type.
C3_CompatibleIffNothingBreaking ==
  (/\ cBase.done /\ ~cBase.threw
   /\ cOptions.ignoreFields = << >>
   /\ cOriginalBody.t # "undefined" /\ cReplayedBody.t # "undefined")
    => (cBase.comparison.isCompatible
          <=> /\ cBase.comparison.statusMatch
              /\ Len(cBase.comparison.headerDiffs.added) = 0
              /\ Len(cBase.comparison.headerDiffs.removed) = 0
              /\ ~bodyFieldRemoved(cOriginalBody, cReplayedBody)
              /\ ~bodyFieldTypeChanged(cOriginalBody, cReplayedBody))

\* C4: when the values of an object field that is not ignored are of
\* different type categories, the tolerant verifier reports an
\* incompatibility "Type changed from X to Y" at its path and gives
\* isCompatible = false, whatever the tolerances.
C4_TypeChangeIsIncompatible ==
  (cTolerant.done /\ ~cTolerant.threw)
    => \A path \in typeChangedFields(cOriginalBody, cReplayedBody, << >>) :
         ~shouldIgnoreField(cOptions, path)
           => /\ ~cTolerant.comparison.isCompatible
              /\ \E i \in 1..Len(cTolerant.comparison.bodyDiffs.incompatible) :
                   LET entry == cTolerant.comparison.bodyDiffs.incompatible[i]
                   IN entry.path = path /\ Head(entry.reason) = "Type changed from "

ReportedPaths(bodyDiffs) ==
  Range(bodyDiffs.added) \cup Range(bodyDiffs.removed) \cup Range(bodyDiffs.modified)
    \cup {bodyDiffs.incompatible[i].path : i \in 1..Len(bodyDiffs.incompatible)}

\* the replayed body is the original body without the one field key
OnlyRemoves(lhs, rhs, key) ==
  /\ lhs.t = "object" /\ rhs.t = "object"
  /\ HasKey(lhs, key) /\ ~HasKey(rhs, key)
  /\ \A i \in 1..Len(lhs.keys) :
       lhs.keys[i] # key => (HasKey(rhs, lhs.keys[i]) /\ Get(rhs, lhs.keys[i]) = lhs.vals[i])
  /\ Len(rhs.keys) = Len(lhs.keys) - 1

\* C5: no entry of added, removed, modified or incompatible has a path that
\* ignoreFields covers, and a response that differs from the recorded one
\* only by the removal of a field that ignoreFields covers is compatible.
C5_IgnoredFieldsAreNotReported ==
  cTolerant.done
    => /\ ~cTolerant.threw =>
            \A path \in ReportedPaths(cTolerant.comparison.bodyDiffs) :
              ~shouldIgnoreField(cOptions, path)
       /\ \A i \in 1..Len(cOriginalBody.keys) :
            (/\ OnlyRemoves(cOriginalBody, cReplayedBody, cOriginalBody.keys[i])
             /\ shouldIgnoreField(cOptions, cOriginalBody.keys[i])
             /\ cOriginal.statusCode = cReplayed.statusCode
             /\ cOriginal.headers = cReplayed.headers)
              => (~cTolerant.threw /\ cTolerant.comparison.isCompatible)

\* the two bodies hold one field each, under the same key
SingleField(lhs, rhs) ==
  /\ lhs.t = "object" /\ rhs.t = "object"
  /\ Len(lhs.keys) = 1 /\ rhs.keys = lhs.keys

SameEnvelope ==
  /\ cOriginal.statusCode = cReplayed.statusCode
  /\ cOriginal.headers = cReplayed.headers

\* C9: with ignoreUUIDs on, when the bodies hold two different UUIDs under
\* the same key matching a uuidFields entry and nothing else differs, the
\* comparison counts at least one tolerated change, no effective change and
\* no modified entry, and the interaction is effectively compatible.
C9_UuidsAreTolerated ==
  (/\ cTolerant.done
   /\ TolFlag(cOptions, "ignoreUUIDs")
   /\ IsDefined(cOptions.tolerances, "uuidFields")
   /\ SameEnvelope
   /\ SingleField(cOriginalBody, cReplayedBody)
   /\ cOriginalBody.vals[1] # cReplayedBody.vals[1]
   /\ isLikelyUUID(cOptions, cOriginalBody.keys[1], cOriginalBody.vals[1])
   /\ isLikelyUUID(cOptions, cReplayedBody.keys[1], cReplayedBody.vals[1]))
    => /\ ~cTolerant.threw
       /\ cTolerant.comparison.bodyDiffs.tolerated >= 1
       /\ cTolerant.comparison.bodyDiffs.total
            - cTolerant.comparison.bodyDiffs.tolerated = 0
       /\ Len(cTolerant.comparison.bodyDiffs.modified) = 0
       /\ cTolerant.comparison.isCompatible

\* value is the epoch-millisecond number of the instant the text iso names
SameInstant(iso, value) ==
  /\ iso.t = "string" /\ value.t = "number"
  /\ isoDatePattern(iso.s)
  /\ dateParse(iso.s).valid
  /\ dateParse(iso.s).hi = value.hi /\ dateParse(iso.s).lo = value.lo

\* C10: when a body field holds an ISO-8601 text on one side and the
\* epoch-millisecond integer of the same instant on the other, the
\* difference is counted as tolerated and is reported neither in modified
\* nor in incompatible.
C10_IsoEqualsEpochMillis ==
  (/\ cTolerant.done
   /\ SingleField(cOriginalBody, cReplayedBody)
   /\ ~shouldIgnoreField(cOptions, cOriginalBody.keys[1])
   /\ \/ SameInstant(cOriginalBody.vals[1], cReplayedBody.vals[1])
      \/ SameInstant(cReplayedBody.vals[1], cOriginalBody.vals[1]))
    => /\ ~cTolerant.threw
       /\ cTolerant.comparison.bodyDiffs.tolerated >= 1
       /\ Len(cTolerant.comparison.bodyDiffs.modified) = 0
       /\ Len(cTolerant.comparison.bodyDiffs.incompatible) = 0

\* C8: for the same session and the same answers, the run with one more
\* tolerance rule has an effectiveCompatibilityScore at least that of the
\* run without it.
C8_MoreToleranceNeverLowersScore ==
  (mResultBefore.done /\ mResultAfter.done)
    => ScoreLeq(mResultBefore.results.summary.effectiveCompatibilityScore,
                mResultAfter.results.summary.effectiveCompatibilityScore)

(***************************************************************************)
(* Recorder                                                                *)
(***************************************************************************)
RECURSIVE FlattenInteractions(_)
FlattenInteractions(recorded) ==
  IF Len(recorded) = 0 THEN << >>
  ELSE Head(recorded).interactions \o FlattenInteractions(Tail(recorded))

AllRecorded == Range(FlattenInteractions(sessions) \o currentSession.interactions)

SameRequestContent(i, j) ==
  /\ i.request.method = j.request.method
  /\ i.request.path = j.request.path
  /\ i.request.query = j.request.query
  /\ i.request.body = j.request.body

\* C11: two recorded interactions whose captured requests agree on method,
\* path, query and body carry the same requestHash, whatever their headers,
\* cookies, capture timestamp and duration.
C11_HashIgnoresHeadersAndTiming ==
  \A i \in AllRecorded : \A j \in AllRecorded :
    SameRequestContent(i, j) => i.requestHash = j.requestHash

\* two interactions recorded with different headers (one with a cookie), at
\* different times and with different durations, and the same hash
C11_Witness ==
  \E i \in AllRecorded : \E j \in AllRecorded :
    /\ SameRequestContent(i, j)
    /\ i.request.headers # j.request.headers
    /\ i.timestamp # j.timestamp
    /\ i.duration # j.duration
    /\ i.requestHash = j.requestHash

\* b is a with the keys of some of its mappings in another order
RECURSIVE SameUpToKeyOrder(_, _)
SameUpToKeyOrder(a, b) ==
  IF a.t # b.t THEN FALSE
  ELSE IF a.t = "array"
  THEN /\ Len(a.vals) = Len(b.vals)
       /\ \A i \in 1..Len(a.vals) : SameUpToKeyOrder(a.vals[i], b.vals[i])
  ELSE IF a.t = "object"
  THEN /\ Range(a.keys) = Range(b.keys)
       /\ \A key \in Range(a.keys) : SameUpToKeyOrder(Get(a, key), Get(b, key))
  ELSE a = b

\* b holds, somewhere, a sequence of a with its elements in another order
\* (elements that are not the same up to the order of their keys)
RECURSIVE SequenceReordered(_, _)
SequenceReordered(a, b) ==
  IF a.t # b.t THEN FALSE
  ELSE IF a.t = "array"
  THEN /\ Len(a.vals) = Len(b.vals)
       /\ \E i \in 1..Len(a.vals) : ~SameUpToKeyOrder(a.vals[i], b.vals[i])
       /\ \E p \in [1..Len(a.vals) -> 1..Len(a.vals)] :
            /\ \A i \in 1..Len(a.vals) : \A j \in 1..Len(a.vals) : p[i] = p[j] => i = j
            /\ \A i \in 1..Len(a.vals) : SameUpToKeyOrder(a.vals[i], b.vals[p[i]])
  ELSE IF a.t = "object"
  THEN /\ Range(a.keys) = Range(b.keys)
       /\ \E key \in Range(a.keys) : SequenceReordered(Get(a, key), Get(b, key))
       /\ \A key \in Range(a.keys) :
            \/ SequenceReordered(Get(a, key), Get(b, key))
            \/ SameUpToKeyOrder(Get(a, key), Get(b, key))
  ELSE FALSE

BothHashed == hLeftHash # NoHash /\ hRightHash # NoHash

\* C12: two values that differ only in the order of the keys of their
\* mappings have the same digest; two values that differ in the order of
\* the elements of a sequence have different digests.
C12_KeyOrderDoesNotChangeTheHash ==
  BothHashed =>
    /\ SameUpToKeyOrder(hLeft, hRight) => hLeftHash = hRightHash
    /\ SequenceReordered(hLeft, hRight) => hLeftHash # hRightHash

\* a mapping with a nested mapping, both with their keys in another order
C12_Witness ==
  /\ BothHashed
  /\ hLeft # hRight
  /\ hLeft.t = "object"
  /\ \E key \in Range(hLeft.keys) : Get(hLeft, key).t = "object"
  /\ SameUpToKeyOrder(hLeft, hRight)
  /\ hLeftHash = hRightHash

\* C13: whatever registerTemplate, findMatchingTemplate and clearCaches calls
\* came before, a call of the cached findMatchingTemplate returns what the
\* uncached scan of the route table in insertion order returns for the same
\* request
C13_CachedLookupEqualsScan ==
  [][\A request \in ResolverRequests :
       FindMatchingTemplate(request) =>
         lastFound'.found =
           findMatchingTemplateUncached(responseResolver.routeTemplates, request)]_vars

\* a lookup answered null from the cache while a registered route matches
C13_StaleMiss ==
  /\ lastFound.called
  /\ lastFound.found.kind = "null"
  /\ findMatchingTemplateUncached(responseResolver.routeTemplates, lastFound.request).kind
       = "route"

\* the positions of the routes the request matches: the method is '*' or
\* that of the request whatever the case, and the pattern matches the path
matchingRoutes(routes, request) ==
  {i \in 1..Len(routes) :
     /\ \/ routes[i].method = sStar
        \/ toUpperCase(routes[i].method) = toUpperCase(request.method)
     /\ regexpMatches(routes[i].pattern, request.path)}

earliest(positions) == CHOOSE i \in positions : \A j \in positions : i <= j

\* C19: on a cache miss findMatchingTemplate returns the route registered
\* first among those the request matches, with the parameters of the path,
\* and null when the request matches no route
C19_MissReturnsEarliestMatch ==
  [][\A request \in ResolverRequests :
       (/\ FindMatchingTemplate(request)
        /\ ~cacheHas(responseResolver.templateCache, fastCacheKey(request)))
       => LET routes == responseResolver.routeTemplates
              positions == matchingRoutes(routes, request)
          IN IF positions = {} THEN lastFound'.found.kind = "null"
             ELSE /\ lastFound'.found.kind = "route"
                  /\ lastFound'.found.index = earliest(positions)
                  /\ lastFound'.found.route = routes[earliest(positions)]
                  /\ lastFound'.found.params.t = "object"
                  /\ lastFound'.found.params.keys
                       = capturedSegments(routes[earliest(positions)].pattern,
                                          request.path).names]_vars

\* a lookup that left findMatchingTemplate by an exception while a route
\* matches its request
C19_LookupThrew ==
  /\ lastFound.called
  /\ lastFound.found.kind = "threw"
  /\ matchingRoutes(responseResolver.routeTemplates, lastFound.request) # {}

\* for paths that can be decoded the miss returns the earliest match
C19_DecodablePaths ==
  [][\A request \in ResolverRequests :
       (/\ FindMatchingTemplate(request)
        /\ ~cacheHas(responseResolver.templateCache, fastCacheKey(request))
        /\ request.path # sUsersMalformed)
       => LET routes == responseResolver.routeTemplates
              positions == matchingRoutes(routes, request)
          IN IF positions = {} THEN lastFound'.found.kind = "null"
             ELSE /\ lastFound'.found.kind = "route"
                  /\ lastFound'.found.index = earliest(positions)
                  /\ lastFound'.found.params
                       = match(routes[earliest(positions)].pattern, request.path).params]_vars

\* C15: a replay of the session (replayAgainstContract or
\* replayWithTemplates, whatever the filter and the routes) leaves the
\* session stored in originalSessions as it was: the same interactions in
\* the same order with the same requests and responses
C15_ReplayLeavesSessionUnchanged ==
  [][(\E lives \in LiveAnswers : ReplayAgainstContract(lives) \/ ReplayWithTemplates(TRUE, lives))
       => storedSession' = storedSession]_vars

\* a replay has run and a request of the stored session holds the
\* parameters of a route
C15_RequestChanged ==
  /\ storedResults.stored
  /\ \E i \in 1..Len(storedSession) : storedSession[i].request.params.t = "object"

\* a replay changes nothing of the stored session but the params of its
\* requests
C15_OnlyParamsChange ==
  [][(\E lives \in LiveAnswers : ReplayAgainstContract(lives) \/ ReplayWithTemplates(TRUE, lives))
       => /\ Len(storedSession') = Len(storedSession)
          /\ \A i \in 1..Len(storedSession) :
               /\ storedSession'[i].response = storedSession[i].response
               /\ storedSession'[i].request.method = storedSession[i].request.method
               /\ storedSession'[i].request.path = storedSession[i].request.path]_vars

\* C20: replayRequest returns the response of a template exactly when
\* useDynamicResponses is set and a registered route matches the request;
\* otherwise it returns the response of the live replay
C20_TemplateExactlyWhenRouteMatches ==
  [][\A request \in ResolverRequests : \A liveResponse \in LiveResponses :
       ReplayRequest(request, liveResponse)
       => IF /\ useDynamicResponses
             /\ matchingRoutes(responseResolver.routeTemplates, request) # {}
          THEN /\ lastReplay'.source = "template"
               /\ lastReplay'.response.defined
          ELSE /\ lastReplay'.source = "live"
               /\ lastReplay'.response = liveResponse]_vars

\* replayRequest answered from the live replay while the flag is set and a
\* registered route matches the request
C20_LiveDespiteRoute ==
  /\ lastReplay.called
  /\ useDynamicResponses
  /\ lastReplay.source = "live"
  /\ matchingRoutes(responseResolver.routeTemplates, lastReplay.request) # {}

\* without a cache entry for the request and with a path that decodes,
\* replayRequest answers as stated
C20_FreshDecodableRequests ==
  [][\A request \in ResolverRequests : \A liveResponse \in LiveResponses :
       (/\ ReplayRequest(request, liveResponse)
        /\ ~cacheHas(responseResolver.templateCache, fastCacheKey(request))
        /\ request.path # sUsersMalformed)
       => IF /\ useDynamicResponses
             /\ matchingRoutes(responseResolver.routeTemplates, request) # {}
          THEN /\ lastReplay'.source = "template"
               /\ lastReplay'.response.defined
          ELSE /\ lastReplay'.source = "live"
               /\ lastReplay'.response = liveResponse]_vars

\* a text of the template, at any depth, holds '{{'
RECURSIVE hasPlaceholder(_)
hasPlaceholder(template) ==
  IF template.t = "string" THEN includes(template.s, sOpen)
  ELSE IF template.t \in {"object", "array"}
  THEN \E i \in 1..Len(template.vals) : hasPlaceholder(template.vals[i])
  ELSE FALSE

\* C14: a template without '{{' (a text, or an object with nested objects
\* and arrays) renders, for every context, to a value structurally equal to
\* the template
C14_PlainTemplateRendersItself ==
  (rendered.called /\ ~hasPlaceholder(originalTemplate))
    => /\ ~rendered.threw
       /\ SameUpToKeyOrder(rendered.value, originalTemplate)

\* a template without '{{' was rendered to an object where it holds an array
C14_ArrayRenderedAsObject ==
  /\ rendered.called
  /\ ~hasPlaceholder(originalTemplate)
  /\ \E key \in Range(originalTemplate.keys) :
       /\ Get(originalTemplate, key).t = "array"
       /\ Get(rendered.value, key).t = "object"

RECURSIVE holdsArray(_)
holdsArray(template) ==
  \/ template.t = "array"
  \/ template.t = "object" /\ \E i \in 1..Len(template.vals) : holdsArray(template.vals[i])

\* templates without '{{' and without arrays render to themselves
C14_PlainTemplateWithoutArrays ==
  (rendered.called /\ ~hasPlaceholder(originalTemplate) /\ ~holdsArray(originalTemplate))
    => /\ ~rendered.threw
       /\ SameUpToKeyOrder(rendered.value, originalTemplate)

\* the keys under which the replayed body of an exchange holds another value
\* than the recorded body
differingKeys(exchange) ==
  {key \in Range(exchange.interaction.response.body.keys) :
     Get(exchange.interaction.response.body, key) # Get(exchange.replayed.body, key)}

\* the replayed body differs from the recorded body in one leaf value only
oneLeafDiffers(exchange) ==
  /\ exchange.interaction.response.body.t = "object"
  /\ exchange.replayed.body.t = "object"
  /\ exchange.replayed.body.keys = exchange.interaction.response.body.keys
  /\ Cardinality(differingKeys(exchange)) = 1
  /\ \A key \in differingKeys(exchange) :
       /\ Get(exchange.interaction.response.body, key).t \notin {"object", "array"}
       /\ Get(exchange.replayed.body, key).t \notin {"object", "array"}

\* the compatibilityScore of the results of the command
cliCompatibilityScore ==
  IF "summary" \in DOMAIN cliResults THEN cliResults.summary.compatibilityScore
  ELSE cliResults.compatibilityScore

C17_VerifyResultHoldsSummary ==
  (exited /\ ~cliFlags.dynamic)
    => /\ "summary" \in DOMAIN cliResults
       /\ cliResults.summary
            = replayAgainstContract(cliVerifierOptions(cliFlags, cliConfig),
                                    cliExchanges).summary

\* a run with --no-dynamic whose session is compatible throughout has ended
\* with exit code 1
C17_CompatibleRunFailed ==
  /\ exited
  /\ exitCode = 1
  /\ ~cliFlags.dynamic
  /\ ~cliFlags.failOnThreshold
  /\ \A i \in 1..Len(cliExchanges) : differingKeys(cliExchanges[i]) = {}
  /\ "summary" \notin DOMAIN cliResults
  /\ cliResults.meetsThreshold

\* both values of the compared pair are detected as timestamps
bothTimestamps ==
  /\ isLikelyTimestamp(Options(<< >>, DriftTolerances(tsDrift)), tsPath, tsOriginal)
  /\ isLikelyTimestamp(Options(<< >>, DriftTolerances(tsDrift)), tsPath, tsReplayed)

\* the absolute difference of the millisecond values is at most drift x 1000
differenceWithin(drift) ==
  withinDrift(toTimestamp(tsOriginal), toTimestamp(tsReplayed), drift)

\* C18: two values both detected as timestamps are equivalent exactly when
\* the absolute difference of their millisecond values (a number below
\* 4102444800 being seconds) is at most timestampDriftSeconds x 1000; with a
\* drift of 0 no two timestamps of different instants are equivalent
C18_EquivalentExactlyWithinDrift ==
  (tsCompared.called /\ bothTimestamps)
    => /\ tsCompared.equivalent <=> differenceWithin(tsDrift)
       /\ (tsDrift = 0 /\ toTimestamp(tsOriginal) # toTimestamp(tsReplayed))
            => ~tsCompared.equivalent

\* two timestamps within the drift, one of them the instant 0, were found
\* not equivalent
C18_EpochNotEquivalent ==
  /\ tsCompared.called
  /\ bothTimestamps
  /\ differenceWithin(tsDrift)
  /\ ~tsCompared.equivalent
  /\ toTimestamp(tsOriginal).hi = 0 /\ toTimestamp(tsOriginal).lo = 0

\* for timestamps other than the instant 0 the comparison is as stated
C18_InstantsAfterEpoch ==
  (/\ tsCompared.called
   /\ bothTimestamps
   /\ toTimestamp(tsOriginal) # toTimestamp(Num(0, 0))
   /\ toTimestamp(tsReplayed) # toTimestamp(Num(0, 0)))
    => /\ tsCompared.equivalent <=> differenceWithin(tsDrift)
       /\ (tsDrift = 0 /\ toTimestamp(tsOriginal) # toTimestamp(tsReplayed))
            => ~tsCompared.equivalent

\* the sources of the context in the order of the merge: the default
\* context, then the output of each builder that does not throw
contributions(request) ==
  <<defaultContext>>
    \o [i \in 1..Len(SelectSeq(contextBuilders,
                               LAMBDA builder : ~builder_throws(builder, request))) |->
          builderOutput(SelectSeq(contextBuilders,
                                  LAMBDA builder : ~builder_throws(builder, request))[i],
                        request, 1)]

holders(sources, key) ==
  {i \in 1..Len(sources) : sources[i].t = "object" /\ HasKey(sources[i], key)}

\* the context is the merge of the sources from left to right: its keys are
\* those of the sources, each with the value of the last source that has it
mergedInOrder(context, sources) ==
  /\ context.t = "object"
  /\ \A key \in Range(context.keys) : holders(sources, key) # {}
  /\ \A i \in 1..Len(sources) :
       sources[i].t = "object"
         => \A key \in Range(sources[i].keys) :
              /\ HasKey(context, key)
              /\ Get(context, key)
                   = Get(sources[CHOOSE j \in holders(sources, key) :
                                   \A k \in holders(sources, key) : k <= j], key)

\* C21: buildContext returns the shallow merge, from left to right, of the
\* default context and the outputs of the builders in registration order (a
\* later value overrides an earlier one); a builder that throws adds
\* nothing, the others still run, and buildContext never throws
C21_ContextIsMergeInOrder ==
  [][\A request \in BuilderRequests :
       BuildContext(request)
         => /\ ~built'.threw
            /\ mergedInOrder(built'.context, contributions(request))]_vars

\* a context built with a builder that throws before a builder whose output
\* overrides a key of the default context
C21_Witness ==
  /\ built.called
  /\ Len(contextBuilders) = 3
  /\ contextBuilders[2] = ThrowingBuilder
  /\ contextBuilders[3].kind = "constant"
  /\ HasKey(defaultContext, sName)
  /\ Get(built.context, sName) = Str(sA)
  /\ Get(built.context, sExtra) = nTwo
  /\ HasKey(built.context, sRequest)

\* a glob: a star stands for any run of characters, every other character
\* for itself
RECURSIVE globMatches(_, _)
globMatches(routePattern, path) ==
  IF Len(routePattern) = 0 THEN Len(path) = 0
  ELSE IF Head(routePattern) = "*"
  THEN \E k \in 0..Len(path) :
         globMatches(Tail(routePattern), SubSeq(path, k + 1, Len(path)))
  ELSE /\ Len(path) > 0
       /\ Head(routePattern) = Head(path)
       /\ globMatches(Tail(routePattern), Tail(path))

\* the interaction satisfies every criterion of the filter that is not empty
satisfiesCriteria(criteria, interaction) ==
  /\ Len(criteria.methods) > 0
       => \E i \in 1..Len(criteria.methods) :
            toUpperCase(criteria.methods[i]) = toUpperCase(interaction.request.method)
  /\ Len(criteria.routes) > 0
       => \E i \in 1..Len(criteria.routes) :
            \/ globMatches(criteria.routes[i], interaction.request.path)
            \/ includes(interaction.request.path, criteria.routes[i])
  /\ Len(criteria.tags) > 0
       => /\ "tags" \in DOMAIN interaction
          /\ Range(criteria.tags) \cap Range(interaction.tags) # {}

\* the positions the claim keeps, in the recorded order
keptByCriteria(criteria, session) ==
  IF Len(criteria.sessionTags) > 0
     /\ Range(criteria.sessionTags) \cap Range(session.tags) = {}
  THEN << >>
  ELSE SelectSeq([i \in 1..Len(session.interactions) |-> i],
                 LAMBDA i : satisfiesCriteria(criteria, session.interactions[i]))

\* C22: with a filter set, filterSession keeps an interaction exactly when it
\* satisfies every criterion that is not empty (its method is one of
\* filter.methods whatever the case, its path matches one of filter.routes as
\* a glob or holds it as a substring, it carries one of filter.tags), keeps
\* the recorded order, and returns no interaction when filter.sessionTags is
\* not empty and shares no tag with the session
C22_KeepsExactlyTheMatching ==
  [][\A session \in FilterSessions :
       (FilterSession(session) /\ filterCriteria.set)
         => filtered'.kept = keptByCriteria(filterCriteria, session)]_vars

\* a route pattern with a dot selected a path that has another character in
\* the place of the dot
C22_DotMatchedAnyCharacter ==
  /\ filtered.called
  /\ filterCriteria.set
  /\ filterCriteria.routes = <<sFilesStarJson>>
  /\ \E i \in Range(filtered.kept) :
       /\ filtered.interactions[i].request.path = sFilesAxjson
       /\ ~globMatches(sFilesStarJson, sFilesAxjson)
       /\ ~includes(sFilesAxjson, sFilesStarJson)

\* C22 for route patterns in which the star is the only character that has
\* a meaning in a regular expression
C22_KeepsExactlyTheMatchingPlainPatterns ==
  [][\A session \in FilterSessions :
       (/\ FilterSession(session)
        /\ filterCriteria.set
        /\ \A i \in 1..Len(filterCriteria.routes) :
             "." \notin Range(filterCriteria.routes[i]))
         => filtered'.kept = keptByCriteria(filterCriteria, session)]_vars

\* C23: a verifier constructed with tolerances that set only some fields
\* (timestampDriftSeconds, ignoreUUIDs and sortArrays) still has the lists
\* arrayFields, timestampFields and uuidFields, and its comparison of two
\* object bodies completes without throwing
C23_PartialTolerancesKeepLists ==
  (/\ cTolerant.done
   /\ cOptions.tolerances.defined = FlagFields
   /\ cOriginalBody.t = "object"
   /\ cReplayedBody.t = "object")
    => /\ IsDefined(cOptions.tolerances, "arrayFields")
       /\ IsDefined(cOptions.tolerances, "timestampFields")
       /\ IsDefined(cOptions.tolerances, "uuidFields")
       /\ ~cTolerant.threw

\* the comparison of two equal bodies of one field threw under the
\* tolerances of the command line
C23_EqualBodiesThrew ==
  /\ cTolerant.done
  /\ cOptions.tolerances = CliDefaultTolerances
  /\ cOriginal = cReplayed
  /\ cOriginalBody = Obj1(sName, Str(sA))
  /\ cTolerant.threw

comparedOf(res) ==
  SelectSeq(res.interactionResults, LAMBDA interaction : interaction.hasComparison)

\* the totals of the summary are the sums of the values of the interactions
SummaryChangesAreSums(res) ==
  /\ res.summary.totalChanges =
       SumSeq([i \in 1..Len(comparedOf(res)) |-> interactionTotal(comparedOf(res)[i])])
  /\ res.summary.toleratedChanges =
       SumSeq([i \in 1..Len(comparedOf(res)) |-> comparedOf(res)[i].toleratedChanges])
  /\ res.summary.effectiveChanges =
       SumSeq([i \in 1..Len(comparedOf(res)) |-> comparedOf(res)[i].effectiveChanges])

\* C24: for every interaction and for the summary of a replay,
\* toleratedChanges <= totalChanges, so that effectiveChanges = totalChanges
\* - toleratedChanges is never negative, and the totalChanges,
\* toleratedChanges and effectiveChanges of the summary are the sums of the
\* values of the interactions
C24_ToleratedAtMostTotal ==
  \A res \in StoredResults :
    /\ \A i \in 1..Len(res.interactionResults) :
         LET interaction == res.interactionResults[i]
         IN interaction.hasComparison
              => /\ interaction.toleratedChanges <= interactionTotal(interaction)
                 /\ interaction.effectiveChanges
                      = interactionTotal(interaction) - interaction.toleratedChanges
                 /\ interaction.effectiveChanges >= 0
    /\ res.summary.toleratedChanges <= res.summary.totalChanges
    /\ res.summary.effectiveChanges
         = res.summary.totalChanges - res.summary.toleratedChanges
    /\ res.summary.effectiveChanges >= 0
    /\ SummaryChangesAreSums(res)

\* a returned replay whose only difference was tolerated: no change counted
\* in the total, one tolerated, and an effective count below zero
C24_NegativeEffectiveChanges ==
  \E res \in StoredResults :
    /\ res.summary.totalChanges = 0
    /\ res.summary.toleratedChanges = 1
    /\ res.summary.effectiveChanges = 0 - 1

\* the sums of C24 alone
C24_SummaryIsSumOfInteractions ==
  \A res \in StoredResults :
    /\ SummaryChangesAreSums(res)
    /\ res.summary.effectiveChanges
         = res.summary.totalChanges - res.summary.toleratedChanges

\* the request has the method, path, query and body of a recorded request
sameAsRecorded(req) ==
  \E i \in 1..Len(recordedFrom) :
    /\ recordedFrom[i].method = req.method
    /\ recordedFrom[i].path = req.path
    /\ recordedFrom[i].query = req.query
    /\ recordedFrom[i].body = req.body

\* C25: in a session that recordInteraction produced, findMatchingResponse
\* for a request with the method, path, query and body of a recorded request
\* never returns null: it returns the response of the earliest interaction
\* with the hash of the request, also when the body has a sensitive key
C25_RecordedRequestIsMatched ==
  (matched.called /\ sameAsRecorded(matched.request))
    => /\ matched.result.found
       /\ \E i \in 1..Len(sessionData) :
            /\ matched.result.response = sessionData[i].response
            /\ \A j \in 1..(i - 1) :
                 sessionData[j].requestHash # sessionData[i].requestHash

\* a request recorded with a password in its body and sent again as it was
\* finds no response in the session
C25_PasswordRequestNotMatched ==
  /\ matched.called
  /\ sameAsRecorded(matched.request)
  /\ matched.request.body = Obj1(sPassword, Str(sB))
  /\ \E i \in 1..Len(sessionData) :
       sessionData[i].request.body = Obj1(sPassword, Str(sRedacted))
  /\ ~matched.result.found

\* C25 for the requests whose body reaches the session as it was sent: none,
\* or one without a sensitive key recorded with includeBody on
C25_UnredactedRequestIsMatched ==
  (/\ matched.called
   /\ sameAsRecorded(matched.request)
   /\ \E i \in 1..Len(recordedFrom) :
        /\ recordedFrom[i] = matched.request
        /\ sessionData[i].request.body = matched.request.body)
    => /\ matched.result.found
       /\ \E i \in 1..Len(sessionData) :
            /\ matched.result.response = sessionData[i].response
            /\ \A j \in 1..(i - 1) :
                 sessionData[j].requestHash # sessionData[i].requestHash

\* the calls that did not throw
booleanCalls == SelectSeq(strictCalls, LAMBDA argument : argument \in {"true", "false"})

C26_EachCall ==
  [][\A argument \in StrictArguments :
       CallSetStrict(argument)
         => /\ argument = "true" => strictVerifier'.tolerances = StrictPreset
            /\ (argument = "false" /\ ~strictVerifier.original.saved)
                 => strictVerifier' = strictVerifier
            /\ argument = "other" => (strictThrew' /\ strictVerifier' = strictVerifier)]_vars

C27_RecorderStateConsistent ==
  /\ [](isRecording <=> currentSession # NoCurrentSession)
  /\ [][/\ ((\E sessionName \in SessionIds : StartRecording(sessionName)) /\ isRecording)
             => /\ recorderReturned' = "false"
                /\ UNCHANGED <<currentSession, sessions, isRecording>>
        /\ (StopRecording /\ ~isRecording)
             => /\ recorderReturned' = "null"
                /\ UNCHANGED <<currentSession, sessions, isRecording>>
        /\ ((\E req \in RecordedRequests : \E res \in RecordedResponses :
               RecordInteraction(req, res)) /\ ~isRecording)
             => /\ recorderReturned' = "false"
                /\ UNCHANGED <<currentSession, sessions, isRecording>>]_vars

\* startRecording was called while a session with one interaction was being
\* recorded: it returned false and the session is still there
C27_Witness ==
  /\ isRecording
  /\ recorderReturned = "false"
  /\ Len(currentSession.interactions) = 1
  /\ currentSession.id = "s1"

givenTags == [i \in 1..Len(split(tagsOption, ",")) |-> trim(split(tagsOption, ",")[i])]

tagsOfFile == IF "tags" \in tagFile.properties THEN tagFile.tags ELSE << >>

noDuplicate(tags) == \A i \in 1..Len(tags) : \A j \in 1..Len(tags) : tags[i] = tags[j] => i = j

\* C29: the tag command with --tags on a loadable session file in the saved
\* format, which names the session by sessionId, does not fail with 'Session
\* not found': it saves the session with the tags it had and every given
\* tag that was not among them, none of them twice
C29_SavedFormatIsTagged ==
  (/\ tagOutcome.ran
   /\ tagLoadable
   /\ "sessionId" \in tagFile.properties
   /\ Len(tagsOption) > 0)
    => /\ tagOutcome.exitCode = 0
       /\ tagOutcome.saved
       /\ Range(tagOutcome.tags) = Range(tagsOfFile) \cup Range(givenTags)
       /\ SubSeq(tagOutcome.tags, 1, Len(tagsOfFile)) = tagsOfFile
       /\ noDuplicate(tagOutcome.tags)

\* the command failed on a session file that has a sessionId and no id
C29_SessionNotFound ==
  /\ tagOutcome.ran
  /\ tagLoadable
  /\ tagFile.properties = {"sessionId", "tags"}
  /\ tagsOption = <<"c">>
  /\ tagOutcome.exitCode = 1
  /\ tagOutcome.error = "Session with ID not found"

\* C29 for the session files that carry the session id as id as well
C29_FileWithIdIsTagged ==
  (/\ tagOutcome.ran
   /\ tagLoadable
   /\ {"id", "sessionId"} \subseteq tagFile.properties
   /\ Len(tagsOption) > 0)
    => /\ tagOutcome.exitCode = 0
       /\ tagOutcome.saved
       /\ Range(tagOutcome.tags) = Range(tagsOfFile) \cup Range(givenTags)
       /\ SubSeq(tagOutcome.tags, 1, Len(tagsOfFile)) = tagsOfFile
       /\ noDuplicate(tagOutcome.tags)

\* C30: while a recording is in progress, a response sent through the
\* hooked server adds exactly one interaction to the current session,
\* whether the handler sends it with res.send or with res.json
C30_OneInteractionPerResponse ==
  [][\A req \in HandledRequests : \A via \in {"send", "json"} : \A body \in SentBodies :
       (HandleRequest(req, via, body) /\ hookedServer.isRecording)
         => /\ Len(hookedServer'.written) = Len(hookedServer.written) + 1
            /\ Len(hookedServer'.interactions) = Len(hookedServer.interactions) + 1]_vars

\* one response sent with res.json while recording left two interactions:
\* one with the object as body and one with its JSON text
C30_JsonRecordedTwice ==
  /\ lastHandled.called
  /\ lastHandled.via = "json"
  /\ lastHandled.recording
  /\ lastHandled.recordedBefore = 0
  /\ Len(hookedServer.written) = 1
  /\ Len(hookedServer.interactions) = 2
  /\ hookedServer.interactions[1].response.body = lastHandled.body
  /\ hookedServer.interactions[2].response.body = Str(stringify(lastHandled.body))

\* C30 for a text sent with res.send
C30_TextSentOnce ==
  [][\A req \in HandledRequests : \A body \in SentBodies :
       (HandleRequest(req, "send", body) /\ hookedServer.isRecording /\ body.t = "string")
         => /\ Len(hookedServer'.written) = Len(hookedServer.written) + 1
            /\ Len(hookedServer'.interactions) = Len(hookedServer.interactions) + 1]_vars

====
